---- MODULE Spec2Model ----
(***************************************************************************)
(* PostFiat envelope transport: the EnvelopeFactory (embedding, reference  *)
(* envelopes, multipart chunking and chunk reconstruction), the envelope   *)
(* stores (Redis, EVM, XRPL, and the composite over them) and the content  *)
(* storage backends (inline, Redis, IPFS, multipart, HTTP, composite).     *)
(*                                                                         *)
(* Byte strings and text are values [v |-> contents, n |-> length in       *)
(* bytes]; sizes follow the proto3 wire format.  SHA-256 is modelled as an *)
(* injective function (no collisions).                                     *)
(***************************************************************************)
EXTENDS Integers, Sequences, FiniteSets, TLC

\* ------------------------------------------------------------------ bounds
\* longest content, in UTF-8 bytes
MaxContentBytes == 4
\* largest MultipartStorage.max_part_size tried
MaxPartSize == 3
\* the max_envelope_size values tried are MinLimit .. MinLimit + LimitSpan; the
\* envelope that embeds content of L >= 1 bytes serializes to 150 + L bytes
LimitSpan == 2
MinLimit == 150
\* how many store() calls a behaviour makes
MaxStores == 2
\* longest byte string put through InlineStorage
MaxInlineBytes == 3
\* largest limit passed to list_by_sender
MaxListLimit == 1
\* how many alterations of the collected envelopes a caller makes at most
MaxAlterations == 2
\* how far below 1 the part size of a MultipartStorage goes
NonPositiveSpan == 1
\* how many calls run concurrently on one RedisEnvelopeStore
NumProcs == 3

\* ------------------------------------------------------- text and bytes
\* Characters: 1 is a one-byte (ASCII) character, 2 a two-byte character.
Chars == {1, 2}

\* str.encode('utf-8') of one character: 1 -> <<1>>, 2 -> <<2, 3>>
\* (2 is the lead byte and 3 the continuation byte of the two-byte character)
EncodeChar(c) == IF c = 1 THEN <<1>> ELSE <<2, 3>>

RECURSIVE Utf8Encode(_)
Utf8Encode(s) == IF s = <<>> THEN <<>> ELSE EncodeChar(Head(s)) \o Utf8Encode(Tail(s))

\* bytes.decode('utf-8'): [ok, str]; ok = FALSE stands for UnicodeDecodeError
RECURSIVE Utf8Decode(_)
Utf8Decode(b) ==
    IF b = <<>> THEN [ok |-> TRUE, str |-> <<>>]
    ELSE IF b[1] = 1
         THEN LET r == Utf8Decode(Tail(b))
              IN  [ok |-> r.ok, str |-> IF r.ok THEN <<1>> \o r.str ELSE <<>>]
    ELSE IF b[1] = 2 /\ Len(b) >= 2 /\ b[2] = 3
         THEN LET r == Utf8Decode(Tail(Tail(b)))
              IN  [ok |-> r.ok, str |-> IF r.ok THEN <<2>> \o r.str ELSE <<>>]
    ELSE [ok |-> FALSE, str |-> <<>>]

RECURSIVE StringsOfBytes(_)
\* every text whose UTF-8 encoding has exactly k bytes
StringsOfBytes(k) ==
    IF k = 0 THEN {<<>>}
    ELSE {<<1>> \o s : s \in StringsOfBytes(k - 1)}
         \cup (IF k >= 2 THEN {<<2>> \o s : s \in StringsOfBytes(k - 2)} ELSE {})

Contents == UNION {StringsOfBytes(k) : k \in 0..MaxContentBytes}

\* a Python str constant
Str(s) == [v |-> s, n |-> Len(s)]
\* a bytes value holding the byte sequence b
Bytes(b) == [v |-> b, n |-> Len(b)]

\* hashlib.sha256(x).digest(): 32 bytes, injective in x
SHA256(x) == [v |-> <<"sha256", x>>, n |-> 32]
\* bytes.hex() / hashlib.sha256(x).hexdigest(): two characters per byte
HexOf(d) == [v |-> <<"hex", d.v>>, n |-> 2 * d.n]
\* bytes.fromhex(), the inverse of bytes.hex()
FromHex(h) == [v |-> h.v[2], n |-> h.n \div 2]

\* ------------------------------------------------------ proto3 wire sizes
VarintSize(n) == IF n < 128 THEN 1 ELSE IF n < 16384 THEN 2 ELSE 3
\* a string / bytes / nested-message field of n bytes (omitted when empty)
LenDelim(n) == IF n = 0 THEN 0 ELSE 1 + VarintSize(n) + n
\* an int32 / enum field (omitted when zero)
Scalar(x) == IF x = 0 THEN 0 ELSE 1 + VarintSize(x)
\* one entry of a map<string,string> field
MapEntry(k, vlen) ==
    LET inner == LenDelim(Len(k)) + LenDelim(vlen) IN 1 + VarintSize(inner) + inner

RECURSIVE MapSizeOver(_, _)
MapSizeOver(m, K) ==
    IF K = {} THEN 0
    ELSE LET k == CHOOSE x \in K : TRUE
         IN  MapEntry(k, m[k].n) + MapSizeOver(m, K \ {k})

\* a map<string,string>: a function from keys to [v, n] values
MapSize(m) == MapSizeOver(m, DOMAIN m)

\* MessageType and EncryptionMode enum values
CORE_MESSAGE == 0
MULTIPART_MESSAGE_PART == 1
PROTECTED == 1


\* dict.update: the entries of b override those of a
Update(a, b) == [k \in DOMAIN a \cup DOMAIN b |-> IF k \in DOMAIN b THEN b[k] ELSE a[k]]

\* ------------------------------------------------------------- messages
\* CoreMessage.SerializeToString()
SerializeCoreMessage(m) ==
    [v |-> <<"CoreMessage", m>>,
     n |-> LenDelim(m.content.n) + MapSize(m.metadata)]

\* MultiPartMessagePart.SerializeToString()
SerializeMultiPart(p) ==
    [v |-> <<"MultiPartMessagePart", p>>,
     n |-> LenDelim(p.message_id.n) + Scalar(p.part_number) + Scalar(p.total_parts)
           + LenDelim(p.content.n) + LenDelim(p.complete_message_hash.n)]

\* MultiPartMessagePart.ParseFromString()
ParseMultiPart(b) == b.v[2]

\* one ContextReference of public_references: a nested message holding a
\* content hash
RECURSIVE ReferencesSize(_)
ReferencesSize(refs) ==
    IF refs = <<>> THEN 0
    ELSE LenDelim(LenDelim(refs[1].content_hash.n)) + ReferencesSize(Tail(refs))

\* len(Envelope.SerializeToString())
EnvelopeSize(e) ==
    Scalar(e.version) + LenDelim(e.content_hash.n) + Scalar(e.message_type)
    + Scalar(e.encryption) + ReferencesSize(e.public_references)
    + LenDelim(e.message.n) + MapSize(e.metadata)

\* Envelope.SerializeToString()
SerializeEnvelope(e) == [v |-> <<"Envelope", e>>, n |-> EnvelopeSize(e)]

\* Envelope.ParseFromString()
ParseEnvelope(b) == b.v[2]

\* the str f"{a}{b}"
Concat(a, b) == [v |-> <<a.v, b.v>>, n |-> a.n + b.n]

\* str(uuid.uuid4()): 36 characters.  NewMessageId is the id store() draws;
\* which uuid it is makes no difference to any operation, so one value stands
\* for all of them, and OtherMessageId is the id of some other message.
NewMessageId == Str("11111111-1111-4111-8111-111111111111")
OtherMessageId == Str("22222222-2222-4222-8222-222222222222")
MessageIds == {NewMessageId, OtherMessageId}

\* the timestamp every CoreMessage of the factory carries
CoreTimestamp == "timestamp" :> Str("2024-07-07T12:00:00Z")

\* default_metadata of create_envelope (no caller metadata)
DefaultMetadata == "agent_id" :> Str("postfiat_research_agent_001")

\* ------------------------------------------------- content storage backends
StorageKinds == {"multipart", "inline", "ipfs", "http"}

NoDescriptor == [uri |-> Str(""), content_length |-> 0, content_hash |-> SHA256(<<>>),
                 metadata |-> <<>>]

\* MultipartStore with the part count rounded down
\* a // b of Python for b # 0: the quotient rounded towards minus infinity
FloorDiv(a, b) == IF b > 0 THEN a \div b ELSE (0 - a) \div (0 - b)

MultipartStoreFloor(content, P, message_id) ==
    [uri |-> Concat(Str("multipart://"), message_id),
     content_length |-> Len(content),
     content_hash |-> SHA256(content),
     metadata |-> [message_id |-> message_id, total_parts |-> Len(content) \div P,
                   part_size |-> P]]

\* MultipartStorage.store: a descriptor only; message_id is the fresh uuid4
MultipartStore(content, P, message_id) ==
    LET total_parts == FloorDiv(Len(content) + P - 1, P)
    IN  [uri |-> Concat(Str("multipart://"), message_id),
         content_length |-> Len(content),
         content_hash |-> SHA256(content),
         metadata |-> [message_id |-> message_id, total_parts |-> total_parts,
                       part_size |-> P]]

\* content[i:i + max_part_size], i counted from 0
Slice(content, i, P) ==
    SubSeq(content, i + 1, IF i + P < Len(content) THEN i + P ELSE Len(content))

\* the envelope create_part_envelopes builds for the chunk starting at offset i
PartEnvelope(content, descriptor, P, i, base_metadata) ==
    LET part_number == (i \div P) + 1
        total_parts == descriptor.metadata.total_parts
        multipart   == [message_id |-> descriptor.metadata.message_id,
                        part_number |-> part_number,
                        total_parts |-> total_parts,
                        content |-> Bytes(Slice(content, i, P)),
                        complete_message_hash |-> HexOf(descriptor.content_hash)]
        message_bytes == SerializeMultiPart(multipart)
        metadata == Update(base_metadata,
                      ("multipart" :> [v |-> <<part_number, total_parts>>,
                                       n |-> Len(ToString(part_number)) + 1
                                             + Len(ToString(total_parts))])
                      @@ ("message_id" :> descriptor.metadata.message_id))
    IN  [version |-> 1,
         content_hash |-> SHA256(message_bytes),
         message_type |-> MULTIPART_MESSAGE_PART,
         encryption |-> PROTECTED,
         message |-> message_bytes,
         public_references |-> <<>>,
         metadata |-> metadata]

\* range(0, len(content), max_part_size) as the sequence of offsets; a negative
\* step from 0 upwards gives no offset
Offsets(L, P) ==
    IF P < 0 THEN <<>>
    ELSE LET starts == {i \in 0..(L - 1) : i % P = 0}
         IN  [k \in 1..Cardinality(starts) |-> (k - 1) * P]

\* MultipartStorage.create_part_envelopes: [error, envelopes]
CreatePartEnvelopes(content, descriptor, P, base_metadata) ==
    IF descriptor.uri.v[1] # "multipart://"
    THEN [error |-> "ValidationError", envelopes |-> <<>>]
    ELSE IF descriptor.metadata.message_id.n = 0 \/ descriptor.metadata.total_parts = 0
    THEN [error |-> "ValidationError", envelopes |-> <<>>]
    ELSE LET offs == Offsets(Len(content), P)
         IN  [error |-> "",
              envelopes |-> [k \in DOMAIN offs |->
                               PartEnvelope(content, descriptor, P, offs[k], base_metadata)]]

\* base64.b64encode(content).decode(): four characters for every three bytes,
\* the empty string for no bytes
B64Encode(content) == [v |-> <<"base64", content>>, n |-> 4 * ((Len(content) + 2) \div 3)]
\* base64.b64decode(), the inverse of b64encode
B64Decode(text) == text.v[2]

\* InlineStorage.store
InlineStore(content) ==
    [uri |-> Concat(Str("inline://"), Str("data")),
     content_length |-> Len(content),
     content_hash |-> SHA256(content),
     metadata |-> [content_data |-> B64Encode(content)]]

\* IPFSStorage.store: the node's CID when reachable, else the simulated CID
\* "Qm" + the first 44 hex characters of the content hash
IpfsStore(content, reachable) ==
    [uri |-> Concat(Str("ipfs://"),
                    [v |-> <<"Qm", reachable, SHA256(content).v>>, n |-> 46]),
     content_length |-> Len(content),
     content_hash |-> SHA256(content),
     metadata |-> [simulated |-> ~reachable]]

\* ContentStorage.store of the configured backend: [error, descriptor]
StorageStore(kind, content, P, message_id, reachable) ==
    CASE kind = "multipart" ->
            IF P = 0
            THEN [error |-> "ZeroDivisionError", descriptor |-> NoDescriptor]
            ELSE [error |-> "", descriptor |-> MultipartStore(content, P, message_id)]
      [] kind = "inline"    -> [error |-> "", descriptor |-> InlineStore(content)]
      [] kind = "ipfs"      -> [error |-> "", descriptor |-> IpfsStore(content, reachable)]
      [] kind = "http"      -> [error |-> "NotImplementedError", descriptor |-> NoDescriptor]

\* ------------------------------------------- content storage: retrieval
\* str.startswith(prefix) for a URI written as its head, up to and including
\* the first "://" ("" when there is none), followed by the rest
StartsWith(uri, prefix) == uri.v[1] = prefix

\* ContentStorage.can_handle of each backend
CanHandle(kind, uri) ==
    CASE kind = "inline"    -> StartsWith(uri, "inline://")
      [] kind = "redis"     -> StartsWith(uri, "redis://")
      [] kind = "ipfs"      -> StartsWith(uri, "ipfs://")
      [] kind = "multipart" -> StartsWith(uri, "multipart://")
      [] kind = "http"      -> StartsWith(uri, "http://") \/ StartsWith(uri, "https://")

\* the servers behind the content backends: the Redis keys (content hash in
\* hex -> the base64 content kept under it) and the contents the IPFS node has
EmptyBackends == [redis |-> <<>>, ipfs |-> {}]

\* InlineStorage.retrieve: [outcome, content]
InlineRetrieve(descriptor) ==
    IF ~CanHandle("inline", descriptor.uri)
    THEN [outcome |-> "ValidationError", content |-> <<>>]
    ELSE IF "content_data" \notin DOMAIN descriptor.metadata
    THEN [outcome |-> "IOError", content |-> <<>>]
    ELSE LET content_b64 == descriptor.metadata.content_data
         IN  IF content_b64.n = 0
             THEN [outcome |-> "IOError", content |-> <<>>]
             ELSE IF SHA256(B64Decode(content_b64)) # descriptor.content_hash
             THEN [outcome |-> "IOError", content |-> <<>>]
             ELSE [outcome |-> "ok", content |-> B64Decode(content_b64)]

\* RedisStorage.store: [outcome, descriptor, backends]
RedisContentStore(content, b, reachable) ==
    IF ~reachable
    THEN [outcome |-> "IOError", descriptor |-> NoDescriptor, backends |-> b]
    ELSE [outcome |-> "ok",
          descriptor |-> [uri |-> Concat(Str("redis://"), HexOf(SHA256(content))),
                          content_length |-> Len(content),
                          content_hash |-> SHA256(content),
                          metadata |-> [redis_key |-> HexOf(SHA256(content))]],
          backends |-> [b EXCEPT !.redis = Update(@, HexOf(SHA256(content))
                                                     :> B64Encode(content))]]

\* RedisStorage.retrieve: [outcome, content]
RedisContentRetrieve(descriptor, b, reachable) ==
    IF ~CanHandle("redis", descriptor.uri)
    THEN [outcome |-> "ValidationError", content |-> <<>>]
    ELSE IF descriptor.uri.v[2][1] # "hex"
    THEN [outcome |-> "ValueError", content |-> <<>>]
    ELSE LET key == [v |-> descriptor.uri.v[2], n |-> descriptor.uri.n - 8]
         IN  IF ~reachable \/ key \notin DOMAIN b.redis
             THEN [outcome |-> "IOError", content |-> <<>>]
             ELSE IF SHA256(B64Decode(b.redis[key])) # FromHex(key)
             THEN [outcome |-> "IOError", content |-> <<>>]
             ELSE [outcome |-> "ok", content |-> B64Decode(b.redis[key])]

\* IPFSStorage.retrieve: client.cat(cid) gives the content the node has under
\* the cid and fails otherwise
IpfsRetrieve(descriptor, b, reachable) ==
    IF ~CanHandle("ipfs", descriptor.uri)
    THEN [outcome |-> "ValidationError", content |-> <<>>]
    ELSE LET held == {c \in b.ipfs : IpfsStore(c, TRUE).uri = descriptor.uri}
         IN  IF ~reachable \/ held = {}
             THEN [outcome |-> "IOError", content |-> <<>>]
             ELSE [outcome |-> "ok", content |-> CHOOSE c \in held : TRUE]

\* a store that raises when the IPFS node cannot be reached
BackendStoreRaising(kind, content, b, reachable) ==
    CASE kind = "inline" ->
            [outcome |-> "ok", descriptor |-> InlineStore(content), backends |-> b]
      [] kind = "redis" -> RedisContentStore(content, b, reachable)
      [] kind = "ipfs" ->
            IF reachable
            THEN [outcome |-> "ok", descriptor |-> IpfsStore(content, TRUE),
                  backends |-> [b EXCEPT !.ipfs = @ \cup {content}]]
            ELSE [outcome |-> "ConnectionError", descriptor |-> NoDescriptor,
                  backends |-> b]
      [] kind = "multipart" ->
            [outcome |-> "ok",
             descriptor |-> MultipartStore(content, MaxPartSize, NewMessageId),
             backends |-> b]
      [] kind = "http" ->
            [outcome |-> "NotImplementedError", descriptor |-> NoDescriptor,
             backends |-> b]

\* ContentStorage.store of a backend: [outcome, descriptor, backends];
\* reachable says whether the backend's server answers
BackendStore(kind, content, b, reachable) ==
    CASE kind = "inline" ->
            [outcome |-> "ok", descriptor |-> InlineStore(content), backends |-> b]
      [] kind = "redis" -> RedisContentStore(content, b, reachable)
      [] kind = "ipfs" ->
            [outcome |-> "ok", descriptor |-> IpfsStore(content, reachable),
             backends |-> IF reachable THEN [b EXCEPT !.ipfs = @ \cup {content}] ELSE b]
      [] kind = "multipart" ->
            [outcome |-> "ok",
             descriptor |-> MultipartStore(content, MaxPartSize, NewMessageId),
             backends |-> b]
      [] kind = "http" ->
            [outcome |-> "NotImplementedError", descriptor |-> NoDescriptor,
             backends |-> b]

\* ContentStorage.retrieve of a backend: [outcome, content]
BackendRetrieve(kind, descriptor, b, reachable) ==
    CASE kind = "inline" -> InlineRetrieve(descriptor)
      [] kind = "redis" -> RedisContentRetrieve(descriptor, b, reachable)
      [] kind = "ipfs" -> IpfsRetrieve(descriptor, b, reachable)
      [] kind = "multipart" -> [outcome |-> "NotImplementedError", content |-> <<>>]
      [] kind = "http" ->
            IF ~CanHandle("http", descriptor.uri)
            THEN [outcome |-> "ValidationError", content |-> <<>>]
            ELSE [outcome |-> "NotImplementedError", content |-> <<>>]

\* a retrieve that asks every backend that can handle the URI until one
\* returns content
RECURSIVE CompositeStorageRetrieveAny(_, _, _, _, _, _)
CompositeStorageRetrieveAny(storages, i, descriptor, b, reachable, called) ==
    IF i > Len(storages)
    THEN [outcome |-> "ValidationError", content |-> <<>>, called |-> called]
    ELSE IF CanHandle(storages[i], descriptor.uri)
    THEN LET r == BackendRetrieve(storages[i], descriptor, b, reachable)
         IN  IF r.outcome = "ok"
             THEN [outcome |-> r.outcome, content |-> r.content,
                   called |-> Append(called, i)]
             ELSE CompositeStorageRetrieveAny(storages, i + 1, descriptor, b,
                                              reachable, Append(called, i))
    ELSE CompositeStorageRetrieveAny(storages, i + 1, descriptor, b, reachable, called)

\* CompositeStorage.retrieve: the loop from backend i on; called: the backends
\* whose retrieve was called
RECURSIVE CompositeStorageRetrieveFrom(_, _, _, _, _, _)
CompositeStorageRetrieveFrom(storages, i, descriptor, b, reachable, called) ==
    IF i > Len(storages)
    THEN [outcome |-> "ValidationError", content |-> <<>>, called |-> called]
    ELSE IF CanHandle(storages[i], descriptor.uri)
    THEN LET r == BackendRetrieve(storages[i], descriptor, b, reachable)
         IN  [outcome |-> r.outcome, content |-> r.content,
              called |-> Append(called, i)]
    ELSE CompositeStorageRetrieveFrom(storages, i + 1, descriptor, b, reachable, called)

\* CompositeStorage.store: the first backend's store
CompositeStorageStoreResult(storages, content, b, reachable) ==
    IF storages = <<>>
    THEN [outcome |-> "ValidationError", descriptor |-> NoDescriptor, backends |-> b]
    ELSE BackendStore(storages[1], content, b, reachable)

\* --------------------------------------------------------- EnvelopeFactory
\* the envelope _try_create_embedded_envelope builds before its size check
EmbeddedEnvelope(content, metadata) ==
    LET core_message == [content |-> [v |-> content, n |-> Len(Utf8Encode(content))],
                         metadata |-> CoreTimestamp]
        message_bytes == SerializeCoreMessage(core_message)
    IN  [version |-> 1,
         content_hash |-> HexOf(SHA256(message_bytes)),
         message_type |-> CORE_MESSAGE,
         encryption |-> PROTECTED,
         message |-> message_bytes,
         public_references |-> <<>>,
         metadata |-> metadata]

\* TryCreateEmbeddedEnvelope with a strict size comparison
TryCreateEmbeddedEnvelopeStrict(content, metadata, max_envelope_size) ==
    LET envelope == EmbeddedEnvelope(content, metadata)
    IN  IF EnvelopeSize(envelope) < max_envelope_size THEN <<envelope>> ELSE <<>>

\* _try_create_embedded_envelope: <<envelope>>, or <<>> for None
TryCreateEmbeddedEnvelope(content, metadata, max_envelope_size) ==
    LET envelope == EmbeddedEnvelope(content, metadata)
    IN  IF EnvelopeSize(envelope) <= max_envelope_size THEN <<envelope>> ELSE <<>>

\* _create_reference_envelope
CreateReferenceEnvelope(descriptor, metadata) ==
    LET core_message == [content |-> Concat(Str("Content stored at: "), descriptor.uri),
                         metadata |-> CoreTimestamp
                                      @@ ("content_uri" :> descriptor.uri)
                                      @@ ("content_type" :> Str("text/plain; charset=utf-8"))]
        message_bytes == SerializeCoreMessage(core_message)
    IN  [version |-> 1,
         content_hash |-> HexOf(SHA256(message_bytes)),
         message_type |-> CORE_MESSAGE,
         encryption |-> PROTECTED,
         message |-> message_bytes,
         public_references |-> <<>>,
         metadata |-> Update(metadata, "content_uri" :> descriptor.uri)]

\* create_envelope: [kind, envelopes, descriptor, error, store_calls]
\*   kind "envelope"  : a single Envelope
\*        "reference" : the tuple (Envelope, ContentDescriptor)
\*        "multipart" : the list of part envelopes
\*        "error"     : the call raised `error`
CreateEnvelopeResult(content, max_envelope_size, kind, P, message_id, reachable) ==
    LET embedded == TryCreateEmbeddedEnvelope(content, DefaultMetadata, max_envelope_size)
        content_bytes == Utf8Encode(content)
        stored == StorageStore(kind, content_bytes, P, message_id, reachable)
        parts == CreatePartEnvelopes(content_bytes, stored.descriptor, P, DefaultMetadata)
    IN  IF embedded # <<>>
        THEN [kind |-> "envelope", envelopes |-> embedded, descriptor |-> NoDescriptor,
              error |-> "", store_calls |-> 0]
        ELSE IF stored.error # ""
        THEN [kind |-> "error", envelopes |-> <<>>, descriptor |-> NoDescriptor,
              error |-> stored.error, store_calls |-> 1]
        ELSE IF kind = "multipart"
        THEN IF parts.error # ""
             THEN [kind |-> "error", envelopes |-> <<>>, descriptor |-> stored.descriptor,
                   error |-> parts.error, store_calls |-> 1]
             ELSE [kind |-> "multipart", envelopes |-> parts.envelopes,
                   descriptor |-> stored.descriptor, error |-> "", store_calls |-> 1]
        ELSE [kind |-> "reference",
              envelopes |-> <<CreateReferenceEnvelope(stored.descriptor, DefaultMetadata)>>,
              descriptor |-> stored.descriptor, error |-> "", store_calls |-> 1]

\* the Python type of what create_envelope returned
ResultType(result) ==
    CASE result.kind = "envelope"  -> "Envelope"
      [] result.kind = "reference" -> "tuple"
      [] result.kind = "multipart" -> "list"

DefaultPostfiatMetadata ==
    ("extension_version" :> "v1") @@ ("processing_mode" :> "selective_disclosure")

\* the envelope with the smallest part number in its "multipart" metadata
FirstByPartNumber(envelopes) ==
    envelopes[CHOOSE i \in DOMAIN envelopes :
                \A j \in DOMAIN envelopes :
                    envelopes[i].metadata["multipart"].v[1]
                        <= envelopes[j].metadata["multipart"].v[1]]

\* create_envelope_payload after its call of create_envelope returned result:
\* [kind, error, envelope, content, postfiat_metadata]
CreateEnvelopePayloadResult(result) ==
    LET failed(e) == [kind |-> "error", error |-> e, envelope |-> <<>>,
                      content |-> NoDescriptor, postfiat_metadata |-> <<>>]
    IN  IF result.kind = "error" THEN failed(result.error)
        ELSE IF ResultType(result) = "Envelope"
        THEN [kind |-> "payload", error |-> "", envelope |-> result.envelopes[1],
              content |-> NoDescriptor, postfiat_metadata |-> DefaultPostfiatMetadata]
        ELSE IF ResultType(result) = "tuple"
        THEN [kind |-> "payload", error |-> "", envelope |-> result.envelopes[1],
              content |-> result.descriptor, postfiat_metadata |-> DefaultPostfiatMetadata]
        ELSE IF ResultType(result) = "set"
        THEN IF result.envelopes = <<>>
             THEN failed("ValidationError")
             ELSE [kind |-> "payload", error |-> "",
                   envelope |-> FirstByPartNumber(result.envelopes),
                   content |-> NoDescriptor,
                   postfiat_metadata |-> Update(DefaultPostfiatMetadata,
                                                "total_parts" :> Len(result.envelopes))]
        ELSE failed("ValidationError")

\* ---------------------------------------- reconstruct_content_from_chunks
\* the first loop: type check, parse, message id and hash consistency
RECURSIVE ExtractParts(_, _, _)
ExtractParts(envelopes, i, parts) ==
    IF i > Len(envelopes) THEN [error |-> "", msg |-> "", parts |-> parts]
    ELSE IF envelopes[i].message_type # MULTIPART_MESSAGE_PART
    THEN [error |-> "ValidationError", msg |-> "Expected MULTIPART_MESSAGE_PART",
          parts |-> <<>>]
    ELSE LET multipart_part == ParseMultiPart(envelopes[i].message)
         IN  IF parts = <<>>
             THEN ExtractParts(envelopes, i + 1, <<multipart_part>>)
             ELSE IF parts[1].message_id # multipart_part.message_id
             THEN [error |-> "ValidationError", msg |-> "Message ID mismatch",
                   parts |-> <<>>]
             ELSE IF parts[1].complete_message_hash # multipart_part.complete_message_hash
             THEN [error |-> "ValidationError", msg |-> "Complete message hash mismatch",
                   parts |-> <<>>]
             ELSE ExtractParts(envelopes, i + 1, Append(parts, multipart_part))

\* insert p after the last element whose part_number is <= p's (stable)
RECURSIVE InsertPart(_, _)
InsertPart(sorted, p) ==
    IF sorted = <<>> THEN <<p>>
    ELSE IF sorted[Len(sorted)].part_number <= p.part_number THEN Append(sorted, p)
    ELSE Append(InsertPart(SubSeq(sorted, 1, Len(sorted) - 1), p), sorted[Len(sorted)])

\* SortParts with the sort left out
SortPartsOmitted(parts) == parts

\* parts.sort(key=lambda p: p.part_number)
RECURSIVE SortParts(_)
SortParts(parts) ==
    IF parts = <<>> THEN <<>>
    ELSE InsertPart(SortParts(SubSeq(parts, 1, Len(parts) - 1)), parts[Len(parts)])

\* ValidateSequence without the total_parts comparison
RECURSIVE ValidateSequenceNumbersOnly(_, _, _)
ValidateSequenceNumbersOnly(parts, i, expected_total) ==
    IF i > Len(parts) THEN ""
    ELSE IF parts[i].part_number # i THEN "Missing or out-of-order part"
    ELSE ValidateSequenceNumbersOnly(parts, i + 1, expected_total)

\* the second loop: part numbers 1..n and one total_parts
RECURSIVE ValidateSequence(_, _, _)
ValidateSequence(parts, i, expected_total) ==
    IF i > Len(parts) THEN ""
    ELSE IF parts[i].part_number # i THEN "Missing or out-of-order part"
    ELSE IF parts[i].total_parts # expected_total THEN "Total parts mismatch"
    ELSE ValidateSequence(parts, i + 1, expected_total)

\* b''.join(part.content for part in parts)
RECURSIVE JoinContent(_)
JoinContent(parts) ==
    IF parts = <<>> THEN <<>> ELSE parts[1].content.v \o JoinContent(Tail(parts))

\* reconstruct_content_from_chunks: [kind, msg, content]; kind "ok" returns content,
\* any other kind is the type of the exception raised
ReconstructContentFromChunks(envelopes) ==
    IF envelopes = <<>>
    THEN [kind |-> "ValidationError", msg |-> "No envelopes provided", content |-> <<>>]
    ELSE LET ex == ExtractParts(envelopes, 1, <<>>)
             parts == SortParts(ex.parts)
             expected_total == parts[1].total_parts
             seqerr == ValidateSequence(parts, 1, expected_total)
             content_bytes == JoinContent(parts)
             decoded == Utf8Decode(content_bytes)
         IN  IF ex.error # ""
             THEN [kind |-> ex.error, msg |-> ex.msg, content |-> <<>>]
             ELSE IF seqerr # ""
             THEN [kind |-> "ValidationError", msg |-> seqerr, content |-> <<>>]
             ELSE IF Len(parts) # expected_total
             THEN [kind |-> "ValidationError", msg |-> "Incomplete parts", content |-> <<>>]
             ELSE IF ~decoded.ok
             THEN [kind |-> "UnicodeDecodeError", msg |-> "", content |-> <<>>]
             ELSE IF HexOf(SHA256(content_bytes)) # ex.parts[1].complete_message_hash
             THEN [kind |-> "ValidationError",
                   msg |-> "Reconstructed content hash does not match", content |-> <<>>]
             ELSE [kind |-> "ok", msg |-> "", content |-> decoded.str]

\* --------------------------------------------------------- envelope stores
\* _generate_envelope_id (the same in the three stores)
GenerateEnvelopeId(envelope) == HexOf(SHA256(SerializeEnvelope(envelope)))

\* envelope.metadata[k] = v for every entry of m
WithMetadata(envelope, m) == [envelope EXCEPT !.metadata = Update(@, m)]

\* envelope.metadata.get(key, default).v
MetadataGet(envelope, key, default) ==
    IF key \in DOMAIN envelope.metadata THEN envelope.metadata[key].v ELSE default

\* a mapping without the key k
Without(f, k) == [x \in DOMAIN f \ {k} |-> f[x]]

\* ---- RedisEnvelopeStore
\* kv: primary records, meta: storage-metadata records, by_hash / by_context:
\* index sets as <<key, id>> pairs, by_sender: sorted sets as <<sender, id, score>>
EmptyRedis == [kv |-> <<>>, meta |-> <<>>, by_hash |-> {}, by_context |-> {},
               by_sender |-> {}]

\* RedisEnvelopeStore.store: the pipeline executes as one step
RedisStoreResult(envelope, r) ==
    LET envelope_id == GenerateEnvelopeId(envelope)
        marked == WithMetadata(envelope, ("storage_backend" :> Str("redis"))
                                         @@ ("envelope_id" :> envelope_id))
        envelope_data == SerializeEnvelope(marked)
        sender == MetadataGet(marked, "sender", "")
        score == MetadataGet(marked, "timestamp", 0)
    IN  [outcome |-> "ok",
         id |-> envelope_id,
         envelope |-> marked,
         redis |-> [kv |-> Update(r.kv, envelope_id :> envelope_data),
                    meta |-> Update(r.meta, envelope_id :>
                                [envelope_id |-> envelope_id, storage_backend |-> "redis"]),
                    by_hash |-> r.by_hash \cup {<<marked.content_hash, envelope_id>>},
                    by_context |-> r.by_context
                        \cup {<<marked.public_references[i].content_hash, envelope_id>> :
                                i \in DOMAIN marked.public_references},
                    by_sender |-> IF sender = "" THEN r.by_sender
                                  ELSE {t \in r.by_sender : ~(t[1] = sender /\ t[2] = envelope_id)}
                                       \cup {<<sender, envelope_id, score>>}]]

\* the envelope standing in the record of a call that returned none
NoEnvelope == [version |-> 0, content_hash |-> Bytes(<<>>), message_type |-> CORE_MESSAGE,
               encryption |-> 0, message |-> Bytes(<<>>), public_references |-> <<>>,
               metadata |-> <<>>]

\* RedisEnvelopeStore.retrieve without the re-raise of EnvelopeNotFoundError
RedisRetrieveResultWrapped(envelope_id, r) ==
    IF envelope_id \in DOMAIN r.kv
    THEN [outcome |-> "ok", envelope |-> ParseEnvelope(r.kv[envelope_id])]
    ELSE [outcome |-> "StorageError", envelope |-> NoEnvelope]

\* RedisEnvelopeStore.retrieve
RedisRetrieveResult(envelope_id, r) ==
    IF envelope_id \in DOMAIN r.kv
    THEN [outcome |-> "ok", envelope |-> ParseEnvelope(r.kv[envelope_id])]
    ELSE [outcome |-> "EnvelopeNotFoundError", envelope |-> NoEnvelope]

\* a delete that leaves the sender sorted set as it is
RedisDeleteResultKeepingSender(envelope_id, r) ==
    LET got == RedisRetrieveResult(envelope_id, r)
        envelope == got.envelope
    IN  IF got.outcome = "EnvelopeNotFoundError"
        THEN [outcome |-> "ok", value |-> FALSE, redis |-> r]
        ELSE [outcome |-> "ok",
              value |-> envelope_id \in DOMAIN r.kv,
              redis |-> [kv |-> Without(r.kv, envelope_id),
                         meta |-> Without(r.meta, envelope_id),
                         by_hash |-> r.by_hash \ {<<envelope.content_hash, envelope_id>>},
                         by_context |-> r.by_context
                             \ {<<envelope.public_references[i].content_hash, envelope_id>> :
                                  i \in DOMAIN envelope.public_references},
                         by_sender |-> r.by_sender]]

\* RedisEnvelopeStore.delete: retrieve, then the pipeline as one step;
\* value is the boolean returned
RedisDeleteResult(envelope_id, r) ==
    LET got == RedisRetrieveResult(envelope_id, r)
        envelope == got.envelope
        sender == MetadataGet(envelope, "sender", "")
    IN  IF got.outcome = "EnvelopeNotFoundError"
        THEN [outcome |-> "ok", value |-> FALSE, redis |-> r]
        ELSE [outcome |-> "ok",
              value |-> envelope_id \in DOMAIN r.kv,
              redis |-> [kv |-> Without(r.kv, envelope_id),
                         meta |-> Without(r.meta, envelope_id),
                         by_hash |-> r.by_hash \ {<<envelope.content_hash, envelope_id>>},
                         by_context |-> r.by_context
                             \ {<<envelope.public_references[i].content_hash, envelope_id>> :
                                  i \in DOMAIN envelope.public_references},
                         by_sender |-> IF sender = "" THEN r.by_sender
                                       ELSE {t \in r.by_sender :
                                               ~(t[1] = sender /\ t[2] = envelope_id)}]]

\* a delete pipeline that reports success whatever DEL removed
RedisDeletePipelineAlways(envelope_id, envelope, r) ==
    LET sender == MetadataGet(envelope, "sender", "")
    IN  [value |-> TRUE,
         redis |-> [kv |-> Without(r.kv, envelope_id),
                    meta |-> Without(r.meta, envelope_id),
                    by_hash |-> r.by_hash \ {<<envelope.content_hash, envelope_id>>},
                    by_context |-> r.by_context
                        \ {<<envelope.public_references[i].content_hash, envelope_id>> :
                             i \in DOMAIN envelope.public_references},
                    by_sender |-> IF sender = "" THEN r.by_sender
                                  ELSE {t \in r.by_sender :
                                          ~(t[1] = sender /\ t[2] = envelope_id)}]]

\* the pipeline of RedisEnvelopeStore.delete, built from the envelope the call
\* retrieved before and executed as one step on the server state r; value is
\* results[0] > 0, the number of keys DEL removed being 1 or 0
RedisDeletePipeline(envelope_id, envelope, r) ==
    LET sender == MetadataGet(envelope, "sender", "")
    IN  [value |-> envelope_id \in DOMAIN r.kv,
         redis |-> [kv |-> Without(r.kv, envelope_id),
                    meta |-> Without(r.meta, envelope_id),
                    by_hash |-> r.by_hash \ {<<envelope.content_hash, envelope_id>>},
                    by_context |-> r.by_context
                        \ {<<envelope.public_references[i].content_hash, envelope_id>> :
                             i \in DOMAIN envelope.public_references},
                    by_sender |-> IF sender = "" THEN r.by_sender
                                  ELSE {t \in r.by_sender :
                                          ~(t[1] = sender /\ t[2] = envelope_id)}]]

\* ---- EVMEnvelopeStore
\* the contract: envelopeHash (bytes32) -> envelopeData; txs counts the mined
\* storeEnvelope transactions
EmptyChain == [data |-> <<>>, txs |-> 0]

\* EVMEnvelopeStore.store; mined = FALSE is any failure between _get_account and
\* wait_for_transaction_receipt
EvmStoreResult(envelope, c, mined) ==
    LET envelope_id == GenerateEnvelopeId(envelope)
        marked == WithMetadata(envelope, ("storage_backend" :> Str("evm"))
                                         @@ ("chain_id" :> Str("1"))
                                         @@ ("envelope_id" :> envelope_id))
        envelope_data == SerializeEnvelope(marked)
        envelope_hash == SHA256(envelope_data)
        receipt == [transactionHash |-> [v |-> <<"tx", c.txs + 1>>, n |-> 64],
                    blockNumber |-> [v |-> c.txs + 1, n |-> 1],
                    gasUsed |-> [v |-> 21000, n |-> 5]]
    IN  IF ~mined
        THEN [outcome |-> "StorageError", id |-> envelope_id, envelope |-> marked, chain |-> c]
        ELSE [outcome |-> "ok",
              id |-> envelope_id,
              envelope |-> WithMetadata(marked,
                              ("transaction_hash" :> receipt.transactionHash)
                              @@ ("block_number" :> receipt.blockNumber)
                              @@ ("gas_used" :> receipt.gasUsed)),
              chain |-> [data |-> Update(c.data, envelope_hash :> envelope_data),
                         txs |-> c.txs + 1]]

\* contract.functions.getEnvelope(envelopeHash).call(): empty bytes when absent
GetEnvelope(c, envelope_hash) ==
    IF envelope_hash \in DOMAIN c.data THEN c.data[envelope_hash] ELSE Bytes(<<>>)

\* EVMEnvelopeStore.retrieve
EvmRetrieveResult(envelope_id, c) ==
    LET envelope_hash == FromHex(envelope_id)
        envelope_data == GetEnvelope(c, envelope_hash)
    IN  IF envelope_data.n = 0
        THEN [outcome |-> "EnvelopeNotFoundError", envelope |-> NoEnvelope]
        ELSE [outcome |-> "ok", envelope |-> ParseEnvelope(envelope_data)]

\* EVMEnvelopeStore.exists
EvmExistsResult(envelope_id, c) ==
    [outcome |-> "ok", value |-> FromHex(envelope_id) \in DOMAIN c.data]

\* EVMEnvelopeStore.delete with a call to the contract and a boolean result
EvmDeleteResultCalling(envelope_id, c) ==
    [outcome |-> "ok", value |-> FromHex(envelope_id) \in DOMAIN c.data,
     chain |-> [c EXCEPT !.data = Without(@, FromHex(envelope_id))],
     effects |-> {"contract"}]

\* EVMEnvelopeStore.delete
EvmDeleteResult(envelope_id, c) ==
    [outcome |-> "NotImplementedError", value |-> FALSE, chain |-> c, effects |-> {}]

\* ---- XRPLEnvelopeStore
\* wallet / client: the lazily created handles; destination: self.destination;
\* memos: the memos of the validated payments
EmptyXrpl == [wallet |-> FALSE, client |-> FALSE, destination |-> "", memos |-> <<>>]

\* the memo size cap of _envelope_to_memo
MemoCap == 1024

\* _envelope_to_memo: [error, memo]
EnvelopeToMemo(envelope) ==
    LET envelope_data == SerializeEnvelope(envelope)
    IN  IF envelope_data.n > MemoCap
        THEN [error |-> "ValueError", memo |-> [MemoType |-> "", MemoData |-> Bytes(<<>>)]]
        ELSE [error |-> "",
              memo |-> [MemoType |-> "postfiat/envelope",
                        MemoData |-> [v |-> <<"base64", envelope_data>>,
                                      n |-> 4 * ((envelope_data.n + 2) \div 3)]]]

\* XRPLEnvelopeStore.store with the wallet loaded before the memo is built
XrplStoreResultWalletFirst(envelope, x, seeded, submit) ==
    LET envelope_id == GenerateEnvelopeId(envelope)
        marked == WithMetadata(envelope, ("storage_backend" :> Str("xrpl"))
                                         @@ ("network" :> Str("mainnet"))
                                         @@ ("envelope_id" :> envelope_id))
        converted == EnvelopeToMemo(marked)
        size == SerializeEnvelope(marked).n
        loaded == [x EXCEPT !.wallet = TRUE,
                            !.destination = IF @ = "" THEN "wallet.address" ELSE @]
        sent == [loaded EXCEPT !.client = TRUE]
        tx_hash == [v |-> <<"tx", Len(x.memos) + 1>>, n |-> 64]
    IN  IF ~seeded
        THEN [outcome |-> "StorageError", id |-> envelope_id, envelope |-> marked,
              xrpl |-> x, effects |-> {}, memo_size |-> size]
        ELSE IF converted.error # ""
        THEN [outcome |-> "StorageError", id |-> envelope_id, envelope |-> marked,
              xrpl |-> loaded, effects |-> {"wallet"}, memo_size |-> size]
        ELSE IF submit # "tesSUCCESS"
        THEN [outcome |-> "StorageError", id |-> envelope_id, envelope |-> marked,
              xrpl |-> sent, effects |-> {"wallet", "client", "submit"},
              memo_size |-> size]
        ELSE [outcome |-> "ok", id |-> envelope_id,
              envelope |-> WithMetadata(marked,
                              ("transaction_hash" :> tx_hash)
                              @@ ("ledger_index" :> [v |-> Len(x.memos) + 1, n |-> 1])),
              xrpl |-> [sent EXCEPT !.memos = Append(@, converted.memo)],
              effects |-> {"wallet", "client", "submit"},
              memo_size |-> size]

\* XRPLEnvelopeStore.store; seeded: a wallet_seed was configured; submit: what
\* submit_and_wait did ("tesSUCCESS"; anything else is another engine result or
\* an exception, which end the same way).
\* effects: which of wallet load, client creation and submission the call did
XrplStoreResult(envelope, x, seeded, submit) ==
    LET envelope_id == GenerateEnvelopeId(envelope)
        marked == WithMetadata(envelope, ("storage_backend" :> Str("xrpl"))
                                         @@ ("network" :> Str("mainnet"))
                                         @@ ("envelope_id" :> envelope_id))
        converted == EnvelopeToMemo(marked)
        size == SerializeEnvelope(marked).n
        loaded == [x EXCEPT !.wallet = TRUE,
                            !.destination = IF @ = "" THEN "wallet.address" ELSE @]
        sent == [loaded EXCEPT !.client = TRUE]
        tx_hash == [v |-> <<"tx", Len(x.memos) + 1>>, n |-> 64]
    IN  IF converted.error # ""
        THEN [outcome |-> "StorageError", id |-> envelope_id, envelope |-> marked,
              xrpl |-> x, effects |-> {}, memo_size |-> size]
        ELSE IF ~seeded
        THEN [outcome |-> "StorageError", id |-> envelope_id, envelope |-> marked,
              xrpl |-> x, effects |-> {}, memo_size |-> size]
        ELSE IF submit # "tesSUCCESS"
        THEN [outcome |-> "StorageError", id |-> envelope_id, envelope |-> marked,
              xrpl |-> sent, effects |-> {"wallet", "client", "submit"},
              memo_size |-> size]
        ELSE [outcome |-> "ok", id |-> envelope_id,
              envelope |-> WithMetadata(marked,
                              ("transaction_hash" :> tx_hash)
                              @@ ("ledger_index" :> [v |-> Len(x.memos) + 1, n |-> 1])),
              xrpl |-> [sent EXCEPT !.memos = Append(@, converted.memo)],
              effects |-> {"wallet", "client", "submit"},
              memo_size |-> size]

\* XRPLEnvelopeStore.delete with a lookup and a boolean result
XrplDeleteResultCalling(envelope_id, x) ==
    [outcome |-> "ok", value |-> FALSE, xrpl |-> [x EXCEPT !.client = TRUE],
     effects |-> {"client"}]

\* XRPLEnvelopeStore.delete
XrplDeleteResult(envelope_id, x) ==
    [outcome |-> "NotImplementedError", value |-> FALSE, xrpl |-> x, effects |-> {}]

\* ---- queries of the three stores
\* the orders in which Redis may hand out the members of the set S
Orderings(S) ==
    {q \in [1..Cardinality(S) -> S] : \A i, j \in DOMAIN q : i # j => q[i] # q[j]}

\* the loop of find_by_content_hash / find_by_context over the ids of one index
\* set: [envelopes, stale], stale being the ids whose primary record is missing
RECURSIVE RetrieveEach(_, _, _, _)
RetrieveEach(ids, i, r, acc) ==
    IF i > Len(ids) THEN acc
    ELSE LET got == RedisRetrieveResult(ids[i], r)
         IN  IF got.outcome = "ok"
             THEN RetrieveEach(ids, i + 1, r,
                               [acc EXCEPT !.envelopes = Append(@, got.envelope)])
             ELSE RetrieveEach(ids, i + 1, r,
                               [acc EXCEPT !.stale = @ \cup {ids[i]}])

\* the ids indexed under the key h in an index set
IndexMembers(index, h) == {t[2] : t \in {u \in index : u[1] = h}}

\* a find_by_content_hash that empties the index set it walked
RedisFindByContentHashResultClearing(content_hash, ids, r) ==
    LET got == RetrieveEach(ids, 1, r, [envelopes |-> <<>>, stale |-> {}])
    IN  [outcome |-> "ok", envelopes |-> got.envelopes,
         redis |-> [r EXCEPT !.by_hash = {t \in @ : t[1] # content_hash}]]

\* RedisEnvelopeStore.find_by_content_hash; ids is smembers() in the order Redis
\* returned it
RedisFindByContentHashResult(content_hash, ids, r) ==
    LET got == RetrieveEach(ids, 1, r, [envelopes |-> <<>>, stale |-> {}])
    IN  [outcome |-> "ok", envelopes |-> got.envelopes,
         redis |-> [r EXCEPT !.by_hash = @ \ {<<content_hash, id>> : id \in got.stale}]]

\* RedisEnvelopeStore.find_by_context
RedisFindByContextResult(context_hash, ids, r) ==
    LET got == RetrieveEach(ids, 1, r, [envelopes |-> <<>>, stale |-> {}])
    IN  [outcome |-> "ok", envelopes |-> got.envelopes,
         redis |-> [r EXCEPT !.by_context = @ \ {<<context_hash, id>> : id \in got.stale}]]

\* the sender sorted set in an order zrevrange may walk it: highest score
\* first; which of two entries of equal score comes first depends on the ids
ZRevOrders(index, sender) ==
    {q \in Orderings({t \in index : t[1] = sender}) :
        \A i, j \in DOMAIN q : i < j => q[i][3] >= q[j][3]}

\* zrevrange(key, start, stop) over the walk q: positions count from 0, a
\* negative position counts from the end, stop is inclusive
ZRange(q, start, stop) ==
    LET n == Len(q)
        from == IF start < 0 THEN (IF n + start < 0 THEN 0 ELSE n + start) ELSE start
        to == IF stop < 0 THEN n + stop ELSE (IF stop > n - 1 THEN n - 1 ELSE stop)
    IN  IF from > to THEN <<>> ELSE [k \in 1..(to - from + 1) |-> q[from + k][2]]

\* RedisEnvelopeStore.list_by_sender; q is the sorted set as zrevrange walks it
RedisListBySenderResult(sender, limit, q, r) ==
    LET got == RetrieveEach(ZRange(q, 0, limit - 1), 1, r,
                            [envelopes |-> <<>>, stale |-> {}])
    IN  [outcome |-> "ok", envelopes |-> got.envelopes,
         redis |-> [r EXCEPT !.by_sender =
                       {t \in @ : ~(t[1] = sender /\ t[2] \in got.stale)}]]

\* no storage metadata
NoMetadata == <<>>

\* RedisEnvelopeStore.get_envelope_metadata
RedisGetMetadataResult(envelope_id, r) ==
    IF envelope_id \in DOMAIN r.meta
    THEN [outcome |-> "ok",
          metadata |-> ("envelope_id" :> r.meta[envelope_id].envelope_id)
                       @@ ("storage_backend" :> Str(r.meta[envelope_id].storage_backend))]
    ELSE [outcome |-> "EnvelopeNotFoundError", metadata |-> NoMetadata]

\* envelope.metadata.get(key, "")
MetadataOr(envelope, key) ==
    IF key \in DOMAIN envelope.metadata THEN envelope.metadata[key] ELSE Str("")

\* EVMEnvelopeStore.get_envelope_metadata: every exception of retrieve,
\* EnvelopeNotFoundError included, leaves as StorageError
EvmGetMetadataResult(envelope_id, c) ==
    LET got == EvmRetrieveResult(envelope_id, c)
    IN  IF got.outcome # "ok"
        THEN [outcome |-> "StorageError", metadata |-> NoMetadata]
        ELSE [outcome |-> "ok",
              metadata |-> ("storage_backend" :> Str("evm"))
                           @@ ("chain_id" :> MetadataOr(got.envelope, "chain_id"))
                           @@ ("transaction_hash" :> MetadataOr(got.envelope, "transaction_hash"))
                           @@ ("block_number" :> MetadataOr(got.envelope, "block_number"))
                           @@ ("gas_used" :> MetadataOr(got.envelope, "gas_used"))]

\* EVMEnvelopeStore.find_by_content_hash / find_by_context
EvmFindResult(hash, c) == [outcome |-> "ok", envelopes |-> <<>>]

\* XRPLEnvelopeStore.retrieve: the NotImplementedError leaves as StorageError
XrplRetrieveResult(envelope_id, x) ==
    [outcome |-> "StorageError", envelope |-> NoEnvelope]

\* XRPLEnvelopeStore.find_by_content_hash / find_by_context
XrplFindResult(hash, x) == [outcome |-> "ok", envelopes |-> <<>>]

\* XRPLEnvelopeStore.get_envelope_metadata: the same answer for every id
XrplGetMetadataResult(envelope_id, x) ==
    [outcome |-> "ok",
     metadata |-> ("storage_backend" :> Str("xrpl"))
                  @@ ("network" :> Str("mainnet"))
                  @@ ("node_url" :> Str("node_url"))]

\* ---- CompositeEnvelopeStore
\* self.stores is a sequence of members [name, kind, st] in the order of the
\* dict; kind is "redis", "evm" or "xrpl" and st the state behind that store
\* the result r of a member's store with the member's new state st
StoredIn(r, st) == [outcome |-> r.outcome, id |-> r.id, envelope |-> r.envelope, st |-> st]

\* store.store(envelope) of one member; accepted = FALSE is a transaction that
\* does not succeed (EVM, XRPL)
MemberStoreResult(m, envelope, accepted) ==
    IF m.kind = "redis"
    THEN StoredIn(RedisStoreResult(envelope, m.st),
                  RedisStoreResult(envelope, m.st).redis)
    ELSE IF m.kind = "evm"
    THEN StoredIn(EvmStoreResult(envelope, m.st, accepted),
                  EvmStoreResult(envelope, m.st, accepted).chain)
    ELSE StoredIn(XrplStoreResult(envelope, m.st, TRUE,
                                  IF accepted THEN "tesSUCCESS" ELSE "tecPATH_DRY"),
                  XrplStoreResult(envelope, m.st, TRUE,
                                  IF accepted THEN "tesSUCCESS" ELSE "tecPATH_DRY").xrpl)

\* store.retrieve(envelope_id) of one member
MemberRetrieveResult(m, envelope_id) ==
    IF m.kind = "redis" THEN RedisRetrieveResult(envelope_id, m.st)
    ELSE IF m.kind = "evm" THEN EvmRetrieveResult(envelope_id, m.st)
    ELSE XrplRetrieveResult(envelope_id, m.st)

\* store.delete(envelope_id) of one member: [outcome, value, st]
MemberDeleteResult(m, envelope_id) ==
    IF m.kind = "redis"
    THEN LET r == RedisDeleteResult(envelope_id, m.st)
         IN  [outcome |-> r.outcome, value |-> r.value, st |-> r.redis]
    ELSE IF m.kind = "evm"
    THEN LET r == EvmDeleteResult(envelope_id, m.st)
         IN  [outcome |-> r.outcome, value |-> r.value, st |-> r.chain]
    ELSE LET r == XrplDeleteResult(envelope_id, m.st)
         IN  [outcome |-> r.outcome, value |-> r.value, st |-> r.xrpl]

\* store.get_envelope_metadata(envelope_id) of one member
MemberGetMetadataResult(m, envelope_id) ==
    IF m.kind = "redis" THEN RedisGetMetadataResult(envelope_id, m.st)
    ELSE IF m.kind = "evm" THEN EvmGetMetadataResult(envelope_id, m.st)
    ELSE XrplGetMetadataResult(envelope_id, m.st)

\* every result store.find_by_content_hash (by = "hash") or
\* store.find_by_context (by = "context") of one member may give:
\* [envelopes, st], one for each order Redis may return the index set in
MemberFindResults(m, by, hash) ==
    IF m.kind = "redis"
    THEN LET index == IF by = "hash" THEN m.st.by_hash ELSE m.st.by_context
         IN  {LET r == IF by = "hash"
                        THEN RedisFindByContentHashResult(hash, ids, m.st)
                        ELSE RedisFindByContextResult(hash, ids, m.st)
              IN  [envelopes |-> r.envelopes, st |-> r.redis] :
                 ids \in Orderings(IndexMembers(index, hash))}
    ELSE IF m.kind = "evm"
    THEN {[envelopes |-> EvmFindResult(hash, m.st).envelopes, st |-> m.st]}
    ELSE {[envelopes |-> XrplFindResult(hash, m.st).envelopes, st |-> m.st]}

\* the names of the members 1..k
RECURSIVE NamesUpTo(_, _)
NamesUpTo(ms, k) == IF k = 0 THEN <<>> ELSE Append(NamesUpTo(ms, k - 1), ms[k].name)

\* CompositeEnvelopeStore.get_store(): the member named default_store
GetStore(ms, store_name) == CHOOSE i \in DOMAIN ms : ms[i].name = store_name

\* what CompositeEnvelopeStore.store returns when the store of the member d
\* gave r; called: the members whose store was called
CompositeStoreAt(ms, d, r) ==
    [outcome |-> r.outcome, id |-> r.id, envelope |-> r.envelope,
     members |-> [ms EXCEPT ![d].st = r.st],
     called |-> <<ms[d].name>>]

\* CompositeEnvelopeStore.store writing to the first member, not the default
CompositeStoreResultFirst(ms, default_store, envelope, accepted) ==
    CompositeStoreAt(ms, 1, MemberStoreResult(ms[1], envelope, accepted))

\* CompositeEnvelopeStore.store
CompositeStoreResult(ms, default_store, envelope, accepted) ==
    CompositeStoreAt(ms, GetStore(ms, default_store),
                     MemberStoreResult(ms[GetStore(ms, default_store)], envelope, accepted))

\* CompositeEnvelopeStore.retrieve: the loop from member i on.  queried: the
\* members whose retrieve was called; named: the store names the raised
\* error's message carries
RECURSIVE CompositeRetrieveFrom(_, _, _)
CompositeRetrieveFrom(ms, i, envelope_id) ==
    IF i > Len(ms)
    THEN [outcome |-> "EnvelopeNotFoundError", envelope |-> NoEnvelope,
          queried |-> NamesUpTo(ms, Len(ms)), named |-> <<>>]
    ELSE LET got == MemberRetrieveResult(ms[i], envelope_id)
         IN  IF got.outcome = "ok"
             THEN [outcome |-> "ok", envelope |-> got.envelope,
                   queried |-> NamesUpTo(ms, i), named |-> <<>>]
             ELSE IF got.outcome = "EnvelopeNotFoundError"
             THEN CompositeRetrieveFrom(ms, i + 1, envelope_id)
             ELSE [outcome |-> got.outcome, envelope |-> NoEnvelope,
                   queried |-> NamesUpTo(ms, i), named |-> <<>>]

\* CompositeEnvelopeStore.retrieve
CompositeRetrieveResult(ms, envelope_id) == CompositeRetrieveFrom(ms, 1, envelope_id)

\* CompositeEnvelopeStore.find_by_content_hash / find_by_context: the loop from
\* member i on, with the results so far; every result the call may give
RECURSIVE CompositeFindFrom(_, _, _, _, _)
CompositeFindFrom(ms, i, by, hash, results) ==
    IF i > Len(ms)
    THEN {[outcome |-> "ok", envelopes |-> results, members |-> ms,
           queried |-> NamesUpTo(ms, Len(ms))]}
    ELSE UNION {CompositeFindFrom([ms EXCEPT ![i].st = r.st], i + 1, by, hash,
                                  results \o r.envelopes) :
                   r \in MemberFindResults(ms[i], by, hash)}

\* CompositeEnvelopeStore.find_by_content_hash
CompositeFindByContentHashResults(ms, content_hash) ==
    CompositeFindFrom(ms, 1, "hash", content_hash, <<>>)

\* CompositeEnvelopeStore.find_by_context
CompositeFindByContextResults(ms, context_hash) ==
    CompositeFindFrom(ms, 1, "context", context_hash, <<>>)

\* a delete that lets a member's exception leave the loop, as retrieve does
RECURSIVE CompositeDeleteFromRaising(_, _, _, _, _)
CompositeDeleteFromRaising(ms, i, envelope_id, deleted, attempts) ==
    IF i > Len(ms)
    THEN [outcome |-> "ok", value |-> deleted, members |-> ms, attempts |-> attempts]
    ELSE LET r == MemberDeleteResult(ms[i], envelope_id)
             tried == Append(attempts, [name |-> ms[i].name,
                                        outcome |-> r.outcome,
                                        value |-> r.value])
         IN  IF r.outcome # "ok"
             THEN [outcome |-> r.outcome, value |-> FALSE, members |-> ms,
                   attempts |-> tried]
             ELSE CompositeDeleteFromRaising([ms EXCEPT ![i].st = r.st], i + 1,
                                             envelope_id, deleted \/ r.value, tried)

\* CompositeEnvelopeStore.delete: the loop from member i on.  attempts: what
\* each member's delete returned or raised
RECURSIVE CompositeDeleteFrom(_, _, _, _, _)
CompositeDeleteFrom(ms, i, envelope_id, deleted, attempts) ==
    IF i > Len(ms)
    THEN [outcome |-> "ok", value |-> deleted, members |-> ms, attempts |-> attempts]
    ELSE LET r == MemberDeleteResult(ms[i], envelope_id)
         IN  CompositeDeleteFrom([ms EXCEPT ![i].st = r.st], i + 1, envelope_id,
                                 deleted \/ (r.outcome = "ok" /\ r.value),
                                 Append(attempts, [name |-> ms[i].name,
                                                   outcome |-> r.outcome,
                                                   value |-> r.value]))

\* CompositeEnvelopeStore.delete
CompositeDeleteResult(ms, envelope_id) ==
    CompositeDeleteFrom(ms, 1, envelope_id, FALSE, <<>>)

\* CompositeEnvelopeStore.get_envelope_metadata: the loop from member i on;
\* from: the member whose answer is returned
RECURSIVE CompositeGetMetadataFrom(_, _, _)
CompositeGetMetadataFrom(ms, i, envelope_id) ==
    IF i > Len(ms)
    THEN [outcome |-> "EnvelopeNotFoundError", metadata |-> NoMetadata, from |-> ""]
    ELSE LET got == MemberGetMetadataResult(ms[i], envelope_id)
         IN  IF got.outcome = "ok"
             THEN [outcome |-> "ok", metadata |-> got.metadata, from |-> ms[i].name]
             ELSE IF got.outcome = "EnvelopeNotFoundError"
             THEN CompositeGetMetadataFrom(ms, i + 1, envelope_id)
             ELSE [outcome |-> got.outcome, metadata |-> NoMetadata, from |-> ms[i].name]

\* CompositeEnvelopeStore.get_envelope_metadata
CompositeGetMetadataResult(ms, envelope_id) == CompositeGetMetadataFrom(ms, 1, envelope_id)

\* ------------------------------------------------------------------ state
VARIABLES
    pc,        \* "idle", "created", "collecting", "done"
    cfg,       \* the factory as constructed: max_envelope_size, storage, max_part_size
    content,   \* the content passed to create_envelope
    result,    \* what create_envelope returned or raised
    chunks,    \* the envelope list handed to reconstruct_content_from_chunks
    tampered,  \* whether chunks is no longer a reordering of what was created
    budget,    \* how many more alterations of chunks the caller may make
    payload,   \* what create_envelope_payload returned
    recon,     \* what reconstruct_content_from_chunks returned or raised
    objs,      \* the client's Envelope objects; store() mutates the one passed
    redis,     \* the Redis server behind one RedisEnvelopeStore
    chain,     \* the contract behind one EVMEnvelopeStore
    xrpl,      \* one XRPLEnvelopeStore: its handles and the ledger's memos
    seeded,    \* whether the XRPLEnvelopeStore was given a wallet_seed
    last,      \* the last store call made and what it returned or raised
    nstores,   \* the number of store() calls made
    returned,  \* [obj, backend, id, envelope] for every id a store() call returned
    live,      \* the ids returned by a Redis store and not deleted since
    members,   \* CompositeEnvelopeStore.stores: [name, kind, st] in dict order
    default_store,  \* CompositeEnvelopeStore.default_store
    clast,     \* the last CompositeEnvelopeStore call and what it returned or raised
    storages,  \* CompositeStorage.storages: the backend kinds, in list order
    backends,  \* the servers behind the content backends: [redis, ipfs]
    tlast,     \* the last content storage call and what it returned or raised
    procs      \* the calls running concurrently on one RedisEnvelopeStore

fvars == <<pc, cfg, content, result, chunks, tampered, budget, recon, payload>>
svars == <<objs, redis, chain, xrpl, seeded, last, nstores, returned, live>>
cvars == <<members, default_store, clast>>
tvars == <<storages, backends, tlast>>
rvars == <<procs>>
vars == <<fvars, svars, cvars, tvars, rvars>>

Limits == MinLimit..(MinLimit + LimitSpan)

\* EnvelopeFactory(max_envelope_size=S, storage=...) after construction
Configs ==
    {[max_envelope_size |-> S, storage |-> "multipart", max_part_size |-> P] :
        S \in Limits, P \in 1..MaxPartSize}
    \cup {[max_envelope_size |-> S, storage |-> k, max_part_size |-> 0] :
            S \in Limits, k \in StorageKinds \ {"multipart"}}

NoResult == [kind |-> "none", envelopes |-> <<>>, descriptor |-> NoDescriptor,
             error |-> "", store_calls |-> 0]
NoRecon == [kind |-> "none", msg |-> "", content |-> <<>>]

NoPayload == [kind |-> "none", error |-> "", envelope |-> <<>>, content |-> NoDescriptor,
              postfiat_metadata |-> <<>>]

FactoryInit ==
    /\ pc = "idle"
    /\ cfg \in Configs
    /\ content = <<>>
    /\ result = NoResult
    /\ chunks = <<>>
    /\ tampered = FALSE
    /\ budget = 1
    /\ recon = NoRecon
    /\ payload = NoPayload

\* EnvelopeFactory.create_envelope(content)
CreateEnvelope ==
    /\ pc = "idle"
    /\ \E c \in Contents, reachable \in BOOLEAN :
          /\ content' = c
          /\ result' = CreateEnvelopeResult(c, cfg.max_envelope_size, cfg.storage,
                                            cfg.max_part_size, NewMessageId, reachable)
    /\ pc' = "created"
    /\ UNCHANGED <<cfg, chunks, tampered, budget, recon, payload>>
    /\ UNCHANGED <<svars, cvars, tvars, rvars>>

\* EnvelopeFactory.create_envelope_payload(content)
CreateEnvelopePayload ==
    /\ pc = "idle"
    /\ \E c \in Contents, reachable \in BOOLEAN :
          /\ content' = c
          /\ result' = CreateEnvelopeResult(c, cfg.max_envelope_size, cfg.storage,
                                            cfg.max_part_size, NewMessageId, reachable)
          /\ payload' = CreateEnvelopePayloadResult(
                            CreateEnvelopeResult(c, cfg.max_envelope_size, cfg.storage,
                                                 cfg.max_part_size, NewMessageId, reachable))
    /\ pc' = "payload"
    /\ UNCHANGED <<cfg, chunks, tampered, budget, recon>>
    /\ UNCHANGED <<svars, cvars, tvars, rvars>>

\* the caller collects the envelopes create_envelope returned
CollectChunks ==
    /\ pc = "created"
    /\ result.kind \in {"envelope", "reference", "multipart"}
    /\ chunks' = result.envelopes
    /\ pc' = "collecting"
    /\ UNCHANGED <<cfg, content, result, tampered, budget, recon, payload>>
    /\ UNCHANGED <<svars, cvars, tvars, rvars>>

\* the caller presents the envelopes in another order
SwapChunks ==
    /\ pc = "collecting" /\ ~tampered
    /\ \E i \in 1..(Len(chunks) - 1) :
          chunks' = [chunks EXCEPT ![i] = chunks[i + 1], ![i + 1] = chunks[i]]
    /\ UNCHANGED <<pc, cfg, content, result, tampered, budget, recon, payload>>
    /\ UNCHANGED <<svars, cvars, tvars, rvars>>

IsPart(e) == e.message.v[1] = "MultiPartMessagePart"

\* the envelope e carrying the part p instead of its own
WithPart(e, p) == [e EXCEPT !.message = SerializeMultiPart(p)]

\* the caller loses an envelope
DropChunk ==
    /\ pc = "collecting" /\ budget > 0
    /\ \E i \in DOMAIN chunks :
          chunks' = SubSeq(chunks, 1, i - 1) \o SubSeq(chunks, i + 1, Len(chunks))
    /\ tampered' = TRUE
    /\ budget' = budget - 1
    /\ UNCHANGED <<pc, cfg, content, result, recon, payload>>
    /\ UNCHANGED <<svars, cvars, tvars, rvars>>

\* the caller presents an envelope twice, the copy at any place
DuplicateChunk ==
    /\ pc = "collecting" /\ budget > 0
    /\ \E i \in DOMAIN chunks, k \in 0..Len(chunks) :
          chunks' = SubSeq(chunks, 1, k) \o <<chunks[i]>> \o SubSeq(chunks, k + 1, Len(chunks))
    /\ tampered' = TRUE
    /\ budget' = budget - 1
    /\ UNCHANGED <<pc, cfg, content, result, recon, payload>>
    /\ UNCHANGED <<svars, cvars, tvars, rvars>>

\* an envelope of another message type is among the input
RetypeChunk ==
    /\ pc = "collecting" /\ budget > 0
    /\ \E i \in DOMAIN chunks :
          /\ chunks[i].message_type = MULTIPART_MESSAGE_PART
          /\ chunks' = [chunks EXCEPT ![i].message_type = CORE_MESSAGE]
    /\ tampered' = TRUE
    /\ budget' = budget - 1
    /\ UNCHANGED <<pc, cfg, content, result, recon, payload>>
    /\ UNCHANGED <<svars, cvars, tvars, rvars>>

\* the values an altered part may carry
AlteredContents == {Bytes(<<>>), Bytes(<<1>>), Bytes(<<3>>)}
AlteredHashes == {HexOf(SHA256(<<1>>)), HexOf(SHA256(<<1, 1>>))}

\* an envelope whose part differs in one field is among the input
AlterChunk ==
    /\ pc = "collecting" /\ budget > 0
    /\ \E i \in DOMAIN chunks :
          /\ IsPart(chunks[i])
          /\ LET p == ParseMultiPart(chunks[i].message)
                 alt == {[p EXCEPT !.message_id = m] : m \in MessageIds}
                        \cup {[p EXCEPT !.part_number = k] : k \in 0..(Len(chunks) + 1)}
                        \cup {[p EXCEPT !.total_parts = k] : k \in 0..(Len(chunks) + 1)}
                        \cup {[p EXCEPT !.content = c] : c \in AlteredContents}
                        \cup {[p EXCEPT !.complete_message_hash = h] : h \in AlteredHashes}
             IN  \E q \in alt \ {p} : chunks' = [chunks EXCEPT ![i] = WithPart(chunks[i], q)]
    /\ tampered' = TRUE
    /\ budget' = budget - 1
    /\ UNCHANGED <<pc, cfg, content, result, recon, payload>>
    /\ UNCHANGED <<svars, cvars, tvars, rvars>>

\* EnvelopeFactory.reconstruct_content_from_chunks(chunks)
Reconstruct ==
    /\ pc = "collecting"
    /\ recon' = ReconstructContentFromChunks(chunks)
    /\ pc' = "done"
    /\ UNCHANGED <<cfg, content, result, chunks, tampered, budget, payload>>
    /\ UNCHANGED <<svars, cvars, tvars, rvars>>

FactoryNext ==
    \/ CreateEnvelope
    \/ CollectChunks
    \/ SwapChunks
    \/ DropChunk
    \/ DuplicateChunk
    \/ RetypeChunk
    \/ AlterChunk
    \/ Reconstruct

\* the caller holds the part envelopes create_envelope returned for a content
\* of three bytes cut into parts of one byte, and may alter them twice
ReconInit ==
    /\ pc = "collecting"
    /\ cfg = [max_envelope_size |-> MinLimit, storage |-> "multipart", max_part_size |-> 1]
    /\ content \in StringsOfBytes(MaxAlterations + 1)
    /\ result = CreateEnvelopeResult(content, cfg.max_envelope_size, cfg.storage,
                                     cfg.max_part_size, NewMessageId, TRUE)
    /\ chunks = result.envelopes
    /\ tampered = FALSE
    /\ budget = MaxAlterations
    /\ recon = NoRecon
    /\ payload = NoPayload

ReconNext ==
    \/ SwapChunks
    \/ DropChunk
    \/ DuplicateChunk
    \/ RetypeChunk
    \/ AlterChunk
    \/ Reconstruct


\* a factory whose MultipartStorage may have any part size, also none or less
PayloadConfigs ==
    Configs \cup {[max_envelope_size |-> S, storage |-> "multipart", max_part_size |-> P] :
                    S \in Limits, P \in (0 - NonPositiveSpan)..0}

PayloadInit ==
    /\ pc = "idle"
    /\ cfg \in PayloadConfigs
    /\ content = <<>>
    /\ result = NoResult
    /\ chunks = <<>>
    /\ tampered = FALSE
    /\ budget = 0
    /\ recon = NoRecon
    /\ payload = NoPayload

PayloadNext ==
    \/ CreateEnvelope
    \/ CreateEnvelopePayload

\* ---- the envelope stores
\* the message of a client envelope: content number k, n bytes
Payload(k, n) == [v |-> <<"payload", k>>, n |-> n]

\* an Envelope as a client builds it
ClientEnvelope(k, n, metadata, refs) ==
    [version |-> 1,
     content_hash |-> SHA256(<<"payload", k>>),
     message_type |-> CORE_MESSAGE,
     encryption |-> PROTECTED,
     message |-> Payload(k, n),
     public_references |-> refs,
     metadata |-> metadata]

\* the envelopes the client builds.  Without metadata an envelope with an
\* n-byte message serializes to 41 + n bytes, and XRPLEnvelopeStore.store adds
\* 126 bytes of metadata: 857 -> 1024 after the additions, 983 -> 1024 before
\* them, 984 -> 1025 before them.
BaseEnvelopes ==
    << ClientEnvelope(1, 12, ("sender" :> Str("alice")) @@ ("timestamp" :> [v |-> 5, n |-> 1]),
                      <<[content_hash |-> SHA256(<<"context", 1>>)]>>),
       ClientEnvelope(2, 857, <<>>, <<>>),
       ClientEnvelope(3, 983, <<>>, <<>>),
       ClientEnvelope(4, 984, <<>>, <<>>) >>

\* the envelopes one client holds: a behaviour follows the objects of one client
Clients == {{i} : i \in DOMAIN BaseEnvelopes}

Built(S) == [i \in S |-> BaseEnvelopes[i]]

\* an id no store() call returns
UnknownId == GenerateEnvelopeId(NoEnvelope)

NoCall == [op |-> "none", id |-> UnknownId, outcome |-> "", value |-> FALSE,
           envelope |-> NoEnvelope, effects |-> {}, passed_size |-> 0, memo_size |-> 0,
           envelopes |-> <<>>, limit |-> 0, metadata |-> NoMetadata,
           hash |-> Bytes(<<>>)]

\* the ids a caller may ask for
QueryIds == {r.id : r \in returned} \cup {UnknownId}

StoresIdle ==
    /\ objs = Built({1})
    /\ redis = EmptyRedis
    /\ chain = EmptyChain
    /\ xrpl = EmptyXrpl
    /\ seeded = TRUE
    /\ last = NoCall
    /\ nstores = 0
    /\ returned = {}
    /\ live = {}

StoresInit ==
    /\ objs \in {Built(S) : S \in Clients}
    /\ redis = EmptyRedis
    /\ chain = EmptyChain
    /\ xrpl = EmptyXrpl
    /\ seeded \in BOOLEAN
    /\ last = NoCall
    /\ nstores = 0
    /\ returned = {}
    /\ live = {}

FactoryIdle ==
    /\ pc = "idle"
    /\ cfg = [max_envelope_size |-> MinLimit, storage |-> "inline", max_part_size |-> 0]
    /\ content = <<>>
    /\ result = NoResult
    /\ chunks = <<>>
    /\ tampered = FALSE
    /\ budget = 0
    /\ recon = NoRecon
    /\ payload = NoPayload

\* the client builds an envelope equal to the one it built first
RebuildEnvelope ==
    /\ \E o \in DOMAIN objs :
          /\ objs[o] # BaseEnvelopes[o]
          /\ objs' = [objs EXCEPT ![o] = BaseEnvelopes[o]]
    /\ UNCHANGED <<redis, chain, xrpl, seeded, last, nstores, returned, live>>
    /\ UNCHANGED <<fvars, cvars, tvars, rvars>>

\* RedisEnvelopeStore.store(objs[o])
RedisStore ==
    /\ nstores < MaxStores
    /\ \E o \in DOMAIN objs :
          LET r == RedisStoreResult(objs[o], redis)
          IN  /\ objs' = [objs EXCEPT ![o] = r.envelope]
              /\ redis' = r.redis
              /\ last' = [NoCall EXCEPT !.op = "redis.store", !.id = r.id,
                                        !.outcome = r.outcome, !.envelope = objs[o]]
              /\ returned' = returned \cup {[obj |-> o, backend |-> "redis", id |-> r.id,
                                              envelope |-> objs[o]]}
              /\ live' = live \cup {r.id}
    /\ nstores' = nstores + 1
    /\ UNCHANGED <<chain, xrpl, seeded>>
    /\ UNCHANGED <<fvars, cvars, tvars, rvars>>

\* RedisEnvelopeStore.retrieve(id)
RedisRetrieve ==
    /\ \E id \in QueryIds :
          LET r == RedisRetrieveResult(id, redis)
          IN  last' = [NoCall EXCEPT !.op = "redis.retrieve", !.id = id,
                                     !.outcome = r.outcome, !.envelope = r.envelope]
    /\ UNCHANGED <<objs, redis, chain, xrpl, seeded, nstores, returned, live>>
    /\ UNCHANGED <<fvars, cvars, tvars, rvars>>

\* RedisEnvelopeStore.list_by_sender(sender, limit)
RedisListBySender ==
    /\ \E limit \in 0..MaxListLimit :
       \E q \in ZRevOrders(redis.by_sender, "alice") :
          /\ redis' = RedisListBySenderResult("alice", limit, q, redis).redis
          /\ last' = [NoCall EXCEPT
                         !.op = "redis.list_by_sender", !.limit = limit,
                         !.outcome = RedisListBySenderResult("alice", limit, q, redis).outcome,
                         !.envelopes =
                             RedisListBySenderResult("alice", limit, q, redis).envelopes]
    /\ UNCHANGED <<objs, chain, xrpl, seeded, nstores, returned, live>>
    /\ UNCHANGED <<fvars, cvars, tvars, rvars>>

\* the content hashes a caller searches for: those of its envelopes and one no
\* envelope has
IndexHashes == {BaseEnvelopes[i].content_hash : i \in DOMAIN BaseEnvelopes}
               \cup {SHA256(<<"payload", 0>>)}

\* RedisEnvelopeStore.find_by_content_hash(hash)
RedisFindByContentHash ==
    /\ \E hash \in IndexHashes :
       \E ids \in Orderings(IndexMembers(redis.by_hash, hash)) :
          /\ redis' = RedisFindByContentHashResult(hash, ids, redis).redis
          /\ last' = [NoCall EXCEPT
                         !.op = "redis.find_by_content_hash", !.hash = hash,
                         !.outcome = RedisFindByContentHashResult(hash, ids, redis).outcome,
                         !.envelopes =
                             RedisFindByContentHashResult(hash, ids, redis).envelopes,
                         !.effects = {id \in IndexMembers(redis.by_hash, hash) :
                                        id \notin DOMAIN redis.kv}]
    /\ UNCHANGED <<objs, chain, xrpl, seeded, nstores, returned, live>>
    /\ UNCHANGED <<fvars, cvars, tvars, rvars>>

\* the Redis server drops the primary record of an envelope (eviction under
\* memory pressure, or a DEL by another client of the server); the index sets
\* keep the id
RedisLosePrimary ==
    /\ \E id \in DOMAIN redis.kv :
          /\ redis' = [redis EXCEPT !.kv = Without(@, id)]
          /\ live' = live \ {id}
    /\ last' = [NoCall EXCEPT !.op = "redis.lose"]
    /\ UNCHANGED <<objs, chain, xrpl, seeded, nstores, returned>>
    /\ UNCHANGED <<fvars, cvars, tvars, rvars>>

\* RedisEnvelopeStore.delete(id)
RedisDelete ==
    /\ \E id \in QueryIds :
          LET r == RedisDeleteResult(id, redis)
          IN  /\ redis' = r.redis
              /\ last' = [NoCall EXCEPT !.op = "redis.delete", !.id = id,
                                        !.outcome = r.outcome, !.value = r.value]
              /\ live' = IF r.outcome = "ok" /\ r.value THEN live \ {id} ELSE live
    /\ UNCHANGED <<objs, chain, xrpl, seeded, nstores, returned>>
    /\ UNCHANGED <<fvars, cvars, tvars, rvars>>

\* EVMEnvelopeStore.store(objs[o])
EvmStore ==
    /\ nstores < MaxStores
    /\ \E o \in DOMAIN objs, mined \in BOOLEAN :
          LET r == EvmStoreResult(objs[o], chain, mined)
          IN  /\ objs' = [objs EXCEPT ![o] = r.envelope]
              /\ chain' = r.chain
              /\ last' = [NoCall EXCEPT !.op = "evm.store", !.id = r.id,
                                        !.outcome = r.outcome, !.envelope = objs[o]]
              /\ returned' = IF r.outcome = "ok"
                             THEN returned \cup {[obj |-> o, backend |-> "evm", id |-> r.id,
                                              envelope |-> objs[o]]}
                             ELSE returned
    /\ nstores' = nstores + 1
    /\ UNCHANGED <<redis, xrpl, seeded, live>>
    /\ UNCHANGED <<fvars, cvars, tvars, rvars>>

\* EVMEnvelopeStore.retrieve(id)
EvmRetrieve ==
    /\ \E id \in QueryIds :
          LET r == EvmRetrieveResult(id, chain)
          IN  last' = [NoCall EXCEPT !.op = "evm.retrieve", !.id = id,
                                     !.outcome = r.outcome, !.envelope = r.envelope]
    /\ UNCHANGED <<objs, redis, chain, xrpl, seeded, nstores, returned, live>>
    /\ UNCHANGED <<fvars, cvars, tvars, rvars>>

\* EVMEnvelopeStore.get_envelope_metadata(id)
EvmGetMetadata ==
    /\ \E id \in QueryIds :
          LET r == EvmGetMetadataResult(id, chain)
          IN  last' = [NoCall EXCEPT !.op = "evm.get_envelope_metadata", !.id = id,
                                     !.outcome = r.outcome, !.metadata = r.metadata]
    /\ UNCHANGED <<objs, redis, chain, xrpl, seeded, nstores, returned, live>>
    /\ UNCHANGED <<fvars, cvars, tvars, rvars>>

\* EVMEnvelopeStore.exists(id)
EvmExists ==
    /\ \E id \in QueryIds :
          LET r == EvmExistsResult(id, chain)
          IN  last' = [NoCall EXCEPT !.op = "evm.exists", !.id = id,
                                     !.outcome = r.outcome, !.value = r.value]
    /\ UNCHANGED <<objs, redis, chain, xrpl, seeded, nstores, returned, live>>
    /\ UNCHANGED <<fvars, cvars, tvars, rvars>>

\* EVMEnvelopeStore.delete(id)
EvmDelete ==
    /\ \E id \in QueryIds :
          LET r == EvmDeleteResult(id, chain)
          IN  /\ chain' = r.chain
              /\ last' = [NoCall EXCEPT !.op = "evm.delete", !.id = id,
                                        !.outcome = r.outcome, !.value = r.value,
                                        !.effects = r.effects]
    /\ UNCHANGED <<objs, redis, xrpl, seeded, nstores, returned, live>>
    /\ UNCHANGED <<fvars, cvars, tvars, rvars>>

SubmitResults == {"tesSUCCESS", "tecPATH_DRY"}

\* XRPLEnvelopeStore.store(objs[o])
XrplStore ==
    /\ nstores < MaxStores
    /\ \E o \in DOMAIN objs, submit \in SubmitResults :
          LET r == XrplStoreResult(objs[o], xrpl, seeded, submit)
          IN  /\ objs' = [objs EXCEPT ![o] = r.envelope]
              /\ xrpl' = r.xrpl
              /\ last' = [NoCall EXCEPT !.op = "xrpl.store", !.id = r.id,
                                        !.outcome = r.outcome, !.envelope = objs[o],
                                        !.effects = r.effects,
                                        !.passed_size = EnvelopeSize(objs[o]),
                                        !.memo_size = r.memo_size]
              /\ returned' = IF r.outcome = "ok"
                             THEN returned \cup {[obj |-> o, backend |-> "xrpl", id |-> r.id,
                                              envelope |-> objs[o]]}
                             ELSE returned
    /\ nstores' = nstores + 1
    /\ UNCHANGED <<redis, chain, seeded, live>>
    /\ UNCHANGED <<fvars, cvars, tvars, rvars>>

\* XRPLEnvelopeStore.delete(id)
XrplDelete ==
    /\ \E id \in QueryIds :
          LET r == XrplDeleteResult(id, xrpl)
          IN  /\ xrpl' = r.xrpl
              /\ last' = [NoCall EXCEPT !.op = "xrpl.delete", !.id = id,
                                        !.outcome = r.outcome, !.value = r.value,
                                        !.effects = r.effects]
    /\ UNCHANGED <<objs, redis, chain, seeded, nstores, returned, live>>
    /\ UNCHANGED <<fvars, cvars, tvars, rvars>>

StoresNext ==
    \/ RebuildEnvelope
    \/ RedisStore
    \/ RedisRetrieve
    \/ RedisDelete
    \/ EvmStore
    \/ EvmRetrieve
    \/ EvmGetMetadata
    \/ EvmExists
    \/ EvmDelete
    \/ XrplStore
    \/ XrplDelete

\* the factory: one create_envelope call and one reconstruction
\* ---- the composite envelope store
Member(name, kind) ==
    [name |-> name, kind |-> kind,
     st |-> IF kind = "redis" THEN EmptyRedis
            ELSE IF kind = "evm" THEN EmptyChain ELSE EmptyXrpl]

\* CompositeEnvelopeStore(stores, default_store) as constructed: a cache with a
\* ledger behind it or before it, a memo ledger before a cache, and a cache
\* before the archive that is written by default
CompositeConfigs ==
    { [stores |-> <<Member("cache", "redis"), Member("ledger", "evm")>>,
       default_store |-> "cache"],
      [stores |-> <<Member("ledger", "evm"), Member("cache", "redis")>>,
       default_store |-> "ledger"],
      [stores |-> <<Member("memo", "xrpl"), Member("cache", "redis")>>,
       default_store |-> "cache"],
      [stores |-> <<Member("cache", "redis"), Member("archive", "redis")>>,
       default_store |-> "archive"] }

NoCompositeCall ==
    [op |-> "none", id |-> UnknownId, hash |-> Bytes(<<>>), outcome |-> "",
     value |-> FALSE, envelope |-> NoEnvelope, envelopes |-> <<>>,
     queried |-> <<>>, named |-> <<>>, attempts |-> <<>>,
     metadata |-> NoMetadata, from |-> ""]

CompositeIdle ==
    /\ members = <<Member("cache", "redis")>>
    /\ default_store = "cache"
    /\ clast = NoCompositeCall

CompositeInit ==
    /\ \E c \in CompositeConfigs :
          /\ members = c.stores
          /\ default_store = c.default_store
    /\ clast = NoCompositeCall

\* the client of the composite store holds two envelopes of different content
CompositeClient == Built({1, 2})

\* the content hashes and context hashes a caller may search for
SearchHashes ==
    {BaseEnvelopes[i].content_hash : i \in {1, 2}}
    \cup {BaseEnvelopes[1].public_references[1].content_hash}

\* CompositeEnvelopeStore.store(objs[o])
CompositeStore ==
    /\ nstores < MaxStores
    /\ \E o \in DOMAIN objs, accepted \in BOOLEAN :
          LET r == CompositeStoreResult(members, default_store, objs[o], accepted)
          IN  /\ objs' = [objs EXCEPT ![o] = r.envelope]
              /\ members' = r.members
              /\ clast' = [NoCompositeCall EXCEPT !.op = "store", !.id = r.id,
                                                  !.outcome = r.outcome,
                                                  !.envelope = objs[o],
                                                  !.queried = r.called]
              /\ returned' = IF r.outcome = "ok"
                             THEN returned \cup {[obj |-> o, backend |-> default_store,
                                                  id |-> r.id, envelope |-> objs[o]]}
                             ELSE returned
    /\ nstores' = nstores + 1
    /\ UNCHANGED <<redis, chain, xrpl, seeded, last, live, default_store>>
    /\ UNCHANGED <<fvars, tvars, rvars>>

\* a member store used on its own: a store.store(objs[o]) on the member i that
\* succeeds
MemberStore ==
    /\ nstores < MaxStores
    /\ \E i \in DOMAIN members, o \in DOMAIN objs :
          LET r == MemberStoreResult(members[i], objs[o], TRUE)
          IN  /\ objs' = [objs EXCEPT ![o] = r.envelope]
              /\ members' = [members EXCEPT ![i].st = r.st]
              /\ returned' = IF r.outcome = "ok"
                             THEN returned \cup {[obj |-> o, backend |-> members[i].name,
                                                  id |-> r.id, envelope |-> objs[o]]}
                             ELSE returned
    /\ nstores' = nstores + 1
    /\ clast' = [NoCompositeCall EXCEPT !.op = "member.store"]
    /\ UNCHANGED <<redis, chain, xrpl, seeded, last, live, default_store>>
    /\ UNCHANGED <<fvars, tvars, rvars>>

\* CompositeEnvelopeStore.retrieve(id)
CompositeRetrieve ==
    /\ \E id \in QueryIds :
          LET r == CompositeRetrieveResult(members, id)
          IN  clast' = [NoCompositeCall EXCEPT !.op = "retrieve", !.id = id,
                                               !.outcome = r.outcome,
                                               !.envelope = r.envelope,
                                               !.queried = r.queried,
                                               !.named = r.named]
    /\ UNCHANGED <<svars, members, default_store>>
    /\ UNCHANGED <<fvars, tvars, rvars>>

\* CompositeEnvelopeStore.find_by_content_hash(hash)
CompositeFindByContentHash ==
    /\ \E hash \in SearchHashes :
          \E r \in CompositeFindByContentHashResults(members, hash) :
              /\ members' = r.members
              /\ clast' = [NoCompositeCall EXCEPT !.op = "find_by_content_hash",
                                                  !.hash = hash,
                                                  !.outcome = r.outcome,
                                                  !.envelopes = r.envelopes,
                                                  !.queried = r.queried]
    /\ UNCHANGED <<svars, default_store>>
    /\ UNCHANGED <<fvars, tvars, rvars>>

\* CompositeEnvelopeStore.find_by_context(hash)
CompositeFindByContext ==
    /\ \E hash \in SearchHashes :
          \E r \in CompositeFindByContextResults(members, hash) :
              /\ members' = r.members
              /\ clast' = [NoCompositeCall EXCEPT !.op = "find_by_context",
                                                  !.hash = hash,
                                                  !.outcome = r.outcome,
                                                  !.envelopes = r.envelopes,
                                                  !.queried = r.queried]
    /\ UNCHANGED <<svars, default_store>>
    /\ UNCHANGED <<fvars, tvars, rvars>>

\* CompositeEnvelopeStore.delete(id)
CompositeDelete ==
    /\ \E id \in QueryIds :
          LET r == CompositeDeleteResult(members, id)
          IN  /\ members' = r.members
              /\ clast' = [NoCompositeCall EXCEPT !.op = "delete", !.id = id,
                                                  !.outcome = r.outcome,
                                                  !.value = r.value,
                                                  !.attempts = r.attempts]
    /\ UNCHANGED <<svars, default_store>>
    /\ UNCHANGED <<fvars, tvars, rvars>>

\* CompositeEnvelopeStore.get_envelope_metadata(id)
CompositeGetMetadata ==
    /\ \E id \in QueryIds :
          LET r == CompositeGetMetadataResult(members, id)
          IN  clast' = [NoCompositeCall EXCEPT !.op = "get_envelope_metadata",
                                               !.id = id,
                                               !.outcome = r.outcome,
                                               !.metadata = r.metadata,
                                               !.from = r.from]
    /\ UNCHANGED <<svars, members, default_store>>
    /\ UNCHANGED <<fvars, tvars, rvars>>

CompositeNext ==
    \/ RebuildEnvelope
    \/ CompositeStore
    \/ MemberStore
    \/ CompositeRetrieve
    \/ CompositeFindByContentHash
    \/ CompositeFindByContext
    \/ CompositeDelete
    \/ CompositeGetMetadata

\* ------------------------------------------- content storage: state machine
\* the byte strings of at most k bytes, over two byte values
ByteStrings(k) == UNION {[1..n -> {0, 255}] : n \in 0..k}

\* the contents stored in the backends
StoredContents == {<<>>, <<255>>}

ContentTypes == {"text/plain", "application/json"}

\* the ContentDescriptor with its content_type field
Typed(descriptor, content_type) == [content_type |-> content_type] @@ descriptor

BackendKinds == {"inline", "redis", "ipfs", "multipart", "http"}

\* whether the server of a backend answers during a call; the backends
\* without a server make no connection
Reachability(kind) == IF kind \in {"redis", "ipfs"} THEN BOOLEAN ELSE {TRUE}

\* the backend lists a CompositeStorage is constructed with
StorageLists ==
    { <<"inline", "redis", "ipfs", "multipart", "http">>,
      <<"ipfs", "http", "multipart", "redis">>,
      <<>> }

\* a URI no store of this model returns: head is its part up to and including
\* the first "://"
ForeignUri(head) == Concat(Str(head), [v |-> <<"text", "x">>, n |-> 1])

\* the descriptors a caller may pass to retrieve: those a store of a content
\* returns (whether or not the backend still has the content), and descriptors
\* with other URIs
RetrieveInputs ==
    UNION {{InlineStore(c),
            RedisContentStore(c, EmptyBackends, TRUE).descriptor,
            IpfsStore(c, TRUE),
            IpfsStore(c, FALSE),
            MultipartStore(c, MaxPartSize, NewMessageId)} : c \in StoredContents}
    \cup {[NoDescriptor EXCEPT !.uri = ForeignUri(head)] :
             head \in {"http://", "https://", "redis://", "ftp://", ""}}

NoContentCall ==
    [op |-> "none", kind |-> "", content |-> <<>>, reachable |-> TRUE,
     descriptor |-> NoDescriptor, outcome |-> "", value |-> <<>>, called |-> <<>>]

\* no content storage in use
ContentIdle ==
    /\ storages = <<>>
    /\ backends = EmptyBackends
    /\ tlast = NoContentCall

\* a CompositeStorage over one of the backend lists; nothing stored yet
ContentInit ==
    /\ storages \in StorageLists
    /\ backends = EmptyBackends
    /\ tlast = NoContentCall

\* InlineStorage.store(content, content_type) followed by
\* InlineStorage.retrieve of the descriptor it returned
InlineStoreRetrieve ==
    /\ \E c \in ByteStrings(MaxInlineBytes), t \in ContentTypes :
          tlast' = [NoContentCall EXCEPT
                       !.op = "inline.store_retrieve", !.kind = "inline",
                       !.content = c,
                       !.descriptor = Typed(InlineStore(c), t),
                       !.outcome = InlineRetrieve(Typed(InlineStore(c), t)).outcome,
                       !.value = InlineRetrieve(Typed(InlineStore(c), t)).content]
    /\ UNCHANGED <<storages, backends>>
    /\ UNCHANGED <<fvars, svars, cvars, rvars>>

\* store(content, content_type) of one backend
StorageStoreCall ==
    /\ \E kind \in BackendKinds, c \in StoredContents :
        \E reachable \in Reachability(kind) :
          /\ backends' = BackendStore(kind, c, backends, reachable).backends
          /\ tlast' = [NoContentCall EXCEPT
                          !.op = "store", !.kind = kind, !.content = c,
                          !.reachable = reachable,
                          !.descriptor =
                              BackendStore(kind, c, backends, reachable).descriptor,
                          !.outcome = BackendStore(kind, c, backends, reachable).outcome]
    /\ UNCHANGED storages
    /\ UNCHANGED <<fvars, svars, cvars, rvars>>

\* retrieve(descriptor) of one backend
StorageRetrieveCall ==
    /\ \E kind \in BackendKinds, d \in RetrieveInputs :
        \E reachable \in Reachability(kind) :
          tlast' = [NoContentCall EXCEPT
                       !.op = "retrieve", !.kind = kind, !.reachable = reachable,
                       !.descriptor = d,
                       !.outcome = BackendRetrieve(kind, d, backends, reachable).outcome,
                       !.value = BackendRetrieve(kind, d, backends, reachable).content]
    /\ UNCHANGED <<storages, backends>>
    /\ UNCHANGED <<fvars, svars, cvars, rvars>>

\* CompositeStorage.store(content, content_type)
CompositeStorageStore ==
    /\ \E c \in StoredContents :
        \E reachable \in Reachability(IF storages = <<>> THEN "" ELSE storages[1]) :
          /\ backends' = CompositeStorageStoreResult(storages, c, backends, reachable).backends
          /\ tlast' = [NoContentCall EXCEPT
                          !.op = "composite.store", !.content = c,
                          !.kind = IF storages = <<>> THEN "" ELSE storages[1],
                          !.reachable = reachable,
                          !.descriptor =
                              CompositeStorageStoreResult(storages, c, backends,
                                                          reachable).descriptor,
                          !.outcome = CompositeStorageStoreResult(storages, c, backends,
                                                                  reachable).outcome]
    /\ UNCHANGED storages
    /\ UNCHANGED <<fvars, svars, cvars, rvars>>

\* CompositeStorage.retrieve(descriptor)
CompositeStorageRetrieve ==
    /\ \E d \in RetrieveInputs, reachable \in BOOLEAN :
          tlast' = [NoContentCall EXCEPT
                       !.op = "composite.retrieve", !.reachable = reachable,
                       !.descriptor = d,
                       !.outcome = CompositeStorageRetrieveFrom(storages, 1, d, backends,
                                                                reachable, <<>>).outcome,
                       !.value = CompositeStorageRetrieveFrom(storages, 1, d, backends,
                                                              reachable, <<>>).content,
                       !.called = CompositeStorageRetrieveFrom(storages, 1, d, backends,
                                                               reachable, <<>>).called]
    /\ UNCHANGED <<storages, backends>>
    /\ UNCHANGED <<fvars, svars, cvars, rvars>>

ContentNext ==
    \/ InlineStoreRetrieve
    \/ StorageStoreCall
    \/ StorageRetrieveCall
    \/ CompositeStorageStore
    \/ CompositeStorageRetrieve

\* ---- concurrent calls on one RedisEnvelopeStore
\* every call is one coroutine; a pipeline executes as one step (MULTI/EXEC),
\* every other awaited command (get, smembers, srem) is a step of its own
Procs == 1..NumProcs

\* the envelope the callers store, each from a fresh object, and its id
RaceEnvelope == BaseEnvelopes[1]
RaceId == GenerateEnvelopeId(RaceEnvelope)

IdleProc == [op |-> "none", pc |-> "idle", id |-> UnknownId, hash |-> Bytes(<<>>),
             envelope |-> NoEnvelope, found |-> FALSE, value |-> FALSE,
             todo |-> <<>>, out |-> <<>>]

RaceIdle == procs = [i \in Procs |-> IdleProc]

\* the store is empty or holds the envelope from an earlier store
RaceInit ==
    /\ objs = Built({1})
    /\ redis \in {EmptyRedis, RedisStoreResult(RaceEnvelope, EmptyRedis).redis}
    /\ chain = EmptyChain
    /\ xrpl = EmptyXrpl
    /\ seeded = TRUE
    /\ last = NoCall
    /\ nstores = 0
    /\ returned = {}
    /\ live = {}
    /\ RaceIdle

RaceUnchanged ==
    /\ UNCHANGED <<objs, chain, xrpl, seeded, last, nstores, returned, live>>
    /\ UNCHANGED <<fvars, cvars, tvars>>

\* store(envelope): the pipeline executes
RaceStore(i) ==
    /\ procs[i].pc = "idle"
    /\ redis' = RedisStoreResult(RaceEnvelope, redis).redis
    /\ procs' = [procs EXCEPT ![i] = [IdleProc EXCEPT !.op = "store", !.pc = "done",
                                                       !.id = RaceId]]
    /\ RaceUnchanged

\* delete(id): the retrieve that precedes the pipeline
RaceDeleteRead(i) ==
    /\ procs[i].pc = "idle"
    /\ LET got == RedisRetrieveResult(RaceId, redis)
       IN  procs' = [procs EXCEPT ![i] =
                       IF got.outcome = "ok"
                       THEN [IdleProc EXCEPT !.op = "delete", !.pc = "pipeline",
                                             !.id = RaceId, !.found = TRUE,
                                             !.envelope = got.envelope]
                       ELSE [IdleProc EXCEPT !.op = "delete", !.pc = "done",
                                             !.id = RaceId, !.value = FALSE]]
    /\ UNCHANGED redis
    /\ RaceUnchanged

\* delete(id): the pipeline executes and the call returns results[0] > 0
RaceDeletePipeline(i) ==
    /\ procs[i].pc = "pipeline"
    /\ redis' = RedisDeletePipeline(procs[i].id, procs[i].envelope, redis).redis
    /\ procs' = [procs EXCEPT
                    ![i].pc = "done",
                    ![i].value = RedisDeletePipeline(procs[i].id, procs[i].envelope,
                                                     redis).value]
    /\ RaceUnchanged

\* find_by_content_hash(h): smembers
RaceFindMembers(i) ==
    /\ procs[i].pc = "idle"
    /\ \E ids \in Orderings(IndexMembers(redis.by_hash, RaceEnvelope.content_hash)) :
          procs' = [procs EXCEPT ![i] =
                      [IdleProc EXCEPT !.op = "find",
                                       !.pc = IF ids = <<>> THEN "done" ELSE "get",
                                       !.hash = RaceEnvelope.content_hash,
                                       !.todo = ids]]
    /\ UNCHANGED redis
    /\ RaceUnchanged

\* find_by_content_hash(h): the retrieve of the next id
RaceFindGet(i) ==
    /\ procs[i].pc = "get"
    /\ LET got == RedisRetrieveResult(Head(procs[i].todo), redis)
       IN  procs' = [procs EXCEPT ![i] =
                       IF got.outcome = "ok"
                       THEN [@ EXCEPT !.out = Append(@, got.envelope),
                                      !.todo = Tail(@),
                                      !.pc = IF Tail(procs[i].todo) = <<>>
                                             THEN "done" ELSE "get"]
                       ELSE [@ EXCEPT !.pc = "srem"]]
    /\ UNCHANGED redis
    /\ RaceUnchanged

\* find_by_content_hash(h): srem of the id whose retrieve found nothing
RaceFindSrem(i) ==
    /\ procs[i].pc = "srem"
    /\ redis' = [redis EXCEPT !.by_hash = @ \ {<<procs[i].hash, Head(procs[i].todo)>>}]
    /\ procs' = [procs EXCEPT ![i].todo = Tail(@),
                              ![i].pc = IF Tail(procs[i].todo) = <<>>
                                        THEN "done" ELSE "get"]
    /\ RaceUnchanged

RaceNext ==
    \E i \in Procs :
        \/ RaceStore(i)
        \/ RaceDeleteRead(i)
        \/ RaceDeletePipeline(i)
        \/ RaceFindMembers(i)
        \/ RaceFindGet(i)
        \/ RaceFindSrem(i)

RaceStoreInit == RaceInit /\ FactoryIdle /\ CompositeIdle /\ ContentIdle

RaceSpec == RaceStoreInit /\ [][RaceNext]_vars

Init == FactoryInit /\ StoresIdle /\ CompositeIdle /\ ContentIdle /\ RaceIdle

Spec == Init /\ [][FactoryNext]_vars

\* the envelope stores: any sequence of calls on one store of each kind
StoreInit == StoresInit /\ FactoryIdle /\ CompositeIdle /\ ContentIdle /\ RaceIdle

StoreSpec == StoreInit /\ [][StoresNext]_vars

\* one RedisEnvelopeStore whose server may drop primary records
IndexNext ==
    \/ RebuildEnvelope
    \/ RedisStore
    \/ RedisLosePrimary
    \/ RedisFindByContentHash
    \/ RedisListBySender
    \/ RedisDelete

IndexSpec == StoreInit /\ [][IndexNext]_vars

CompositeStoresInit ==
    /\ objs = CompositeClient
    /\ redis = EmptyRedis
    /\ chain = EmptyChain
    /\ xrpl = EmptyXrpl
    /\ seeded = TRUE
    /\ last = NoCall
    /\ nstores = 0
    /\ returned = {}
    /\ live = {}
    /\ FactoryIdle
    /\ CompositeInit
    /\ ContentIdle
    /\ RaceIdle

\* the composite envelope store: any sequence of calls on one composite and of
\* stores on its members
CompositeSpec == CompositeStoresInit /\ [][CompositeNext]_vars

ContentStorageInit == FactoryIdle /\ StoresIdle /\ CompositeIdle /\ ContentInit /\ RaceIdle

\* the content storage backends and the CompositeStorage over them: any
\* sequence of store and retrieve calls
ContentSpec == ContentStorageInit /\ [][ContentNext]_vars

\* reconstruction of a multipart message from altered envelopes
ReconstructionInit == ReconInit /\ StoresIdle /\ CompositeIdle /\ ContentIdle /\ RaceIdle

ReconSpec == ReconstructionInit /\ [][ReconNext]_vars

\* create_envelope and create_envelope_payload on any factory
PayloadFactoryInit == PayloadInit /\ StoresIdle /\ CompositeIdle /\ ContentIdle /\ RaceIdle

PayloadSpec == PayloadFactoryInit /\ [][PayloadNext]_vars

\* ------------------------------------------------------------------ claims
\* C1: the part envelopes create_envelope returns for content C, presented to
\* reconstruct_content_from_chunks in any order, give back exactly C.
C1_RoundTrip ==
    (pc = "done" /\ result.kind = "multipart" /\ ~tampered)
        => (recon.kind = "ok" /\ recon.content = content)

\* a reordered presentation of three or more parts, one of which splits a
\* two-byte character, has been reconstructed
C1_Witness ==
    /\ pc = "done" /\ result.kind = "multipart" /\ ~tampered
    /\ Len(chunks) >= 3
    /\ chunks # result.envelopes
    /\ \E i \in DOMAIN chunks : ParseMultiPart(chunks[i].message).content.v = <<2>>
    /\ recon.kind = "ok"

\* C2: every Envelope create_envelope returns serializes to at most
\* max_envelope_size bytes (and a limit too small for any content is a
\* ValidationError, never an oversized Envelope).
C2_SizeBound ==
    pc = "created" =>
        \A i \in DOMAIN result.envelopes :
            EnvelopeSize(result.envelopes[i]) <= cfg.max_envelope_size

\* the MultiPartMessagePart an envelope carries
PartOf(e) == ParseMultiPart(e.message)

\* the content of the parts numbered k..n joined in part-number order, each
\* number being carried by exactly one envelope
RECURSIVE JoinByNumber(_, _, _)
JoinByNumber(envs, k, n) ==
    IF k > n THEN <<>>
    ELSE LET i == CHOOSE j \in DOMAIN envs : PartOf(envs[j]).part_number = k
         IN  PartOf(envs[i]).content.v \o JoinByNumber(envs, k + 1, n)

\* a complete, consistent part set
ConsistentPartSet(envs) ==
    /\ envs # <<>>
    /\ \A i \in DOMAIN envs : envs[i].message_type = MULTIPART_MESSAGE_PART
    /\ \A i, j \in DOMAIN envs :
          /\ PartOf(envs[i]).message_id = PartOf(envs[j]).message_id
          /\ PartOf(envs[i]).complete_message_hash = PartOf(envs[j]).complete_message_hash
          /\ i # j => PartOf(envs[i]).part_number # PartOf(envs[j]).part_number
    /\ \A i \in DOMAIN envs :
          /\ PartOf(envs[i]).part_number \in 1..Len(envs)
          /\ PartOf(envs[i]).total_parts = Len(envs)
    /\ HexOf(SHA256(JoinByNumber(envs, 1, Len(envs))))
           = PartOf(envs[1]).complete_message_hash

\* C3: reconstruct_content_from_chunks returns content only for a complete,
\* consistent part set; for every other input it raises and returns nothing.
C3_OnlyConsistentSets ==
    pc = "done" =>
        /\ recon.kind = "ok" => ConsistentPartSet(chunks)
        /\ ~ConsistentPartSet(chunks) => (recon.kind # "ok" /\ recon.content = <<>>)

\* an input of three or more parts in which one part number occurs twice has
\* been rejected
C3_Witness ==
    /\ pc = "done" /\ tampered
    /\ Len(chunks) >= 3
    /\ \E i, j \in DOMAIN chunks :
          i # j /\ PartOf(chunks[i]).part_number = PartOf(chunks[j]).part_number
    /\ recon.kind = "ValidationError"

\* ceil(L / P), stated without division
CeilDiv(L, P) == CHOOSE n \in 0..L : n * P >= L /\ (n - 1) * P < L

\* C4: for content of L >= 1 bytes and part size P, create_part_envelopes gives
\* N = ceil(L/P) envelopes of type MULTIPART_MESSAGE_PART with one message_id and
\* complete_message_hash = hash of the content; the k-th has part_number k and
\* all have total_parts = N = the descriptor's total_parts.
C4_PartNumbering ==
    (pc = "created" /\ result.kind = "multipart") =>
        LET envs == result.envelopes
            bytes == Utf8Encode(content)
            N == CeilDiv(Len(bytes), cfg.max_part_size)
        IN  /\ Len(envs) = N
            /\ result.descriptor.metadata.total_parts = N
            /\ \A k \in DOMAIN envs :
                  /\ envs[k].message_type = MULTIPART_MESSAGE_PART
                  /\ PartOf(envs[k]).message_id = result.descriptor.metadata.message_id
                  /\ PartOf(envs[k]).complete_message_hash = HexOf(SHA256(bytes))
                  /\ PartOf(envs[k]).part_number = k
                  /\ PartOf(envs[k]).total_parts = N

\* content whose length is no multiple of the part size has been split
C4_Witness ==
    /\ pc = "created" /\ result.kind = "multipart"
    /\ cfg.max_part_size = 2
    /\ Len(Utf8Encode(content)) = 3
    /\ Len(result.envelopes) = 2

PayloadOf(e) == [version |-> e.version, content_hash |-> e.content_hash,
                 message_type |-> e.message_type, encryption |-> e.encryption,
                 message |-> e.message]

\* the store() calls of one backend that returned id
StoredAs(backend, id) == {r \in returned : r.backend = backend /\ r.id = id}

\* C6: the id a store returns is hash(serialize(e)) of the envelope passed, and
\* storing the same envelope again through the same backend returns the same id.
C6_DeterministicId ==
    /\ last.op \in {"redis.store", "evm.store", "xrpl.store"}
          => last.id = HexOf(SHA256(SerializeEnvelope(last.envelope)))
    /\ \A a \in returned, b \in returned :
          (a.obj = b.obj /\ a.backend = b.backend) => a.id = b.id

\* C7: on one RedisEnvelopeStore retrieve(id) returns an envelope with the
\* payload fields of the envelope whose store returned id exactly when that
\* store has not since been followed by a successful delete(id), and raises
\* EnvelopeNotFoundError in every other state.
C7_RedisRetrieve ==
    last.op = "redis.retrieve" =>
        IF last.id \in live
        THEN /\ last.outcome = "ok"
             /\ StoredAs("redis", last.id) # {}
             /\ \A r \in StoredAs("redis", last.id) :
                    PayloadOf(last.envelope) = PayloadOf(r.envelope)
        ELSE last.outcome = "EnvelopeNotFoundError"

\* a retrieve of an id that was stored, deleted and not stored again
C7_Witness ==
    /\ last.op = "redis.retrieve"
    /\ StoredAs("redis", last.id) # {}
    /\ last.id \notin live
    /\ live # {}
    /\ last.outcome = "EnvelopeNotFoundError"

\* C8: on EVMEnvelopeStore, after store(e) succeeded and returned id,
\* retrieve(id) returns the stored envelope and exists(id) is true.
C8_EvmRetrieveStored ==
    /\ (last.op = "evm.retrieve" /\ StoredAs("evm", last.id) # {}) =>
          /\ last.outcome = "ok"
          /\ \A r \in StoredAs("evm", last.id) :
                PayloadOf(last.envelope) = PayloadOf(r.envelope)
    /\ (last.op = "evm.exists" /\ StoredAs("evm", last.id) # {}) => last.value

\* C9: delete on EVMEnvelopeStore and on XRPLEnvelopeStore raises the
\* unsupported-operation error for every id in every state, returns no boolean,
\* makes no backend call and changes no state.  The steps that set the record
\* of the last call to a delete on one of the two stores are those of EvmDelete
\* and XrplDelete.
C9_DeleteUnsupported ==
    [][(last' # last /\ last'.op \in {"evm.delete", "xrpl.delete"}) =>
          /\ last'.outcome = "NotImplementedError"
          /\ last'.effects = {}
          /\ UNCHANGED <<objs, redis, chain, xrpl, returned>>]_vars

\* a delete of an id whose envelope the contract holds
C9_Witness ==
    /\ last.op = "evm.delete"
    /\ StoredAs("evm", last.id) # {}
    /\ chain.txs > 0
    /\ last.outcome = "NotImplementedError"

\* C10: XRPLEnvelopeStore.store fails whenever the envelope it serializes for
\* the memo exceeds the memo cap, and it fails before the wallet is loaded, the
\* client is created or a transaction is submitted.  memo_size is the length
\* of the serialization store makes, after its own metadata entries are set.
\* The steps that count a store and record an XRPL store are those of XrplStore.
C10_XrplFailFast ==
    [][(nstores' = nstores + 1 /\ last'.op = "xrpl.store" /\ last'.memo_size > MemoCap) =>
          /\ last'.outcome = "StorageError"
          /\ last'.effects = {}
          /\ UNCHANGED <<xrpl, returned>>]_vars

\* a rejected store on a store that has a wallet seed and has loaded nothing yet
C10_Witness ==
    /\ last.op = "xrpl.store"
    /\ seeded
    /\ last.memo_size > MemoCap
    /\ last.outcome = "StorageError"
    /\ ~xrpl.wallet /\ ~xrpl.client /\ xrpl.memos = <<>>

\* ---- claims about CompositeEnvelopeStore
\* the member m keeps an envelope that a store recorded under the id
Holds(m, id) ==
    IF m.kind = "redis" THEN id \in DOMAIN m.st.kv
    ELSE IF m.kind = "evm"
    THEN \E h \in DOMAIN m.st.data :
            MetadataOr(ParseEnvelope(m.st.data[h]), "envelope_id") = id
    ELSE \E k \in DOMAIN m.st.memos :
            MetadataOr(ParseEnvelope(m.st.memos[k].MemoData.v[2]), "envelope_id") = id

\* the members other than the default
OtherMembers == {i \in DOMAIN members : members[i].name # default_store}

\* C11: CompositeEnvelopeStore.store calls store on the default member only
\* and returns the id that member computes; no other member is written.
C11_StoreTargetsDefault ==
    [][(clast'.op = "store" /\ nstores' = nstores + 1) =>
          /\ clast'.queried = <<default_store>>
          /\ clast'.id = GenerateEnvelopeId(clast'.envelope)
          /\ \A i \in OtherMembers : members'[i] = members[i]
          /\ clast'.outcome = "ok" =>
                Holds(members'[GetStore(members, default_store)], clast'.id)]_vars

\* a store through a composite whose default is its second member
C11_Witness ==
    /\ clast.op = "store"
    /\ clast.outcome = "ok"
    /\ default_store = members[2].name
    /\ Holds(members[2], clast.id)
    /\ ~Holds(members[1], clast.id)

\* the members that are Redis stores and have a primary record for id
RedisHolders(id) ==
    {i \in DOMAIN members : members[i].kind = "redis" /\ id \in DOMAIN members[i].st.kv}

\* C12: retrieve returns the first hit: when a member holds id (here: a Redis
\* member has it under its primary key), retrieve(id) returns the envelope of
\* the first member in order that holds it, whatever the members before it
\* answered, and queries no member after it
C12_RetrieveFirstHit ==
    \A i \in RedisHolders(clast.id) :
        (clast.op = "retrieve" /\ \A j \in 1..(i - 1) : ~Holds(members[j], clast.id))
            => /\ clast.outcome = "ok"
               /\ clast.envelope = RedisRetrieveResult(clast.id, members[i].st).envelope
               /\ clast.queried = NamesUpTo(members, i)

\* the names of all members, in order
AllNames == NamesUpTo(members, Len(members))

\* C13: when retrieve raises EnvelopeNotFoundError it has queried every member,
\* and the error names every member that was searched
C13_NotFoundNamesSearched ==
    (clast.op = "retrieve" /\ clast.outcome = "EnvelopeNotFoundError")
        => /\ clast.queried = AllNames
           /\ clast.named = AllNames

\* C14: the envelopes find_by_content_hash / find_by_context return hold no
\* envelope twice: an envelope held by two members appears once
C14_FindUnionOnce ==
    clast.op \in {"find_by_content_hash", "find_by_context"}
        => \A i, j \in DOMAIN clast.envelopes :
              clast.envelopes[i] = clast.envelopes[j] => i = j

\* C15: delete attempts the deletion on every member, in order, raises nothing
\* even when a member's delete raises, and returns TRUE exactly when some
\* member's delete returned TRUE
C15_DeleteBestEffort ==
    clast.op = "delete"
        => /\ clast.outcome = "ok"
           /\ Len(clast.attempts) = Len(members)
           /\ \A i \in DOMAIN members : clast.attempts[i].name = members[i].name
           /\ clast.value = (\E i \in DOMAIN clast.attempts :
                                /\ clast.attempts[i].outcome = "ok"
                                /\ clast.attempts[i].value)

\* a delete whose first member raised and whose second member deleted
C15_Witness ==
    /\ clast.op = "delete"
    /\ clast.attempts[1].outcome = "NotImplementedError"
    /\ clast.attempts[2].outcome = "ok" /\ clast.attempts[2].value
    /\ clast.value

\* C16: get_envelope_metadata returns the storage metadata of the first member,
\* in order, that holds the envelope (here: a Redis member that has it, no
\* member before it holding it), and raises EnvelopeNotFoundError only when no
\* member holds it
C16_MetadataOfFirstHolder ==
    clast.op = "get_envelope_metadata"
        => /\ \A i \in RedisHolders(clast.id) :
                 (\A j \in 1..(i - 1) : ~Holds(members[j], clast.id))
                     => /\ clast.outcome = "ok"
                        /\ clast.from = members[i].name
                        /\ clast.metadata =
                              RedisGetMetadataResult(clast.id, members[i].st).metadata
           /\ clast.outcome = "EnvelopeNotFoundError"
                 => \A i \in DOMAIN members : ~Holds(members[i], clast.id)

\* C20: after RedisEnvelopeStore.delete(id) returned TRUE, id has no primary
\* record and no storage-metadata record, and is in no content-hash set, in no
\* public-reference set and in no sender sorted set
C20_DeleteCleansIndexes ==
    (last.op = "redis.delete" /\ last.outcome = "ok" /\ last.value)
        => /\ last.id \notin DOMAIN redis.kv
           /\ last.id \notin DOMAIN redis.meta
           /\ \A t \in redis.by_hash : t[2] # last.id
           /\ \A t \in redis.by_context : t[2] # last.id
           /\ \A t \in redis.by_sender : t[2] # last.id

\* a successful delete of an envelope that had a sender and a public reference,
\* from a store that keeps another envelope of the same sender
C20_Witness ==
    /\ last.op = "redis.delete" /\ last.outcome = "ok" /\ last.value
    /\ \E r \in returned :
          /\ r.backend = "redis" /\ r.id = last.id
          /\ "sender" \in DOMAIN r.envelope.metadata
          /\ r.envelope.public_references # <<>>
    /\ redis.kv # <<>>
    /\ redis.by_sender # {}
    /\ redis.by_context # {}

\* the positions of the backends of the CompositeStorage that can handle uri
Matching(uri) == {i \in DOMAIN storages : CanHandle(storages[i], uri)}

\* the least element of a non-empty set of positions
First(S) == CHOOSE i \in S : \A j \in S : i <= j

\* C17: CompositeStorage.retrieve(d) calls retrieve on exactly one backend, the
\* first in list order whose can_handle(d.uri) is true, and returns or raises
\* what that backend does; no URI is handled by two of the five backend kinds;
\* when no backend matches, it raises ValidationError and calls no retrieve
C17_RetrieveDispatch ==
    tlast.op = "composite.retrieve"
        => /\ \A k1, k2 \in BackendKinds :
                 (CanHandle(k1, tlast.descriptor.uri) /\ CanHandle(k2, tlast.descriptor.uri))
                     => k1 = k2
           /\ IF Matching(tlast.descriptor.uri) = {}
              THEN tlast.outcome = "ValidationError" /\ tlast.called = <<>>
              ELSE /\ tlast.called = <<First(Matching(tlast.descriptor.uri))>>
                   /\ tlast.outcome =
                         BackendRetrieve(storages[tlast.called[1]], tlast.descriptor,
                                         backends, tlast.reachable).outcome
                   /\ tlast.value =
                         BackendRetrieve(storages[tlast.called[1]], tlast.descriptor,
                                         backends, tlast.reachable).content

\* a retrieve served by a backend that is not the first of the list
C17_Witness ==
    /\ tlast.op = "composite.retrieve"
    /\ Len(tlast.called) = 1 /\ tlast.called[1] > 1
    /\ tlast.outcome = "ok"
    /\ tlast.value = <<255>>

\* a retrieve of a URI no backend of the list handles
C17_WitnessNoMatch ==
    /\ tlast.op = "composite.retrieve"
    /\ storages # <<>>
    /\ tlast.outcome = "ValidationError" /\ tlast.called = <<>>

\* C18: InlineStorage.retrieve(InlineStorage.store(C, t)) returns C, for every
\* byte string C, the empty one included, and every content type t, and the
\* descriptor's content_hash is the hash of the bytes retrieve returns
C18_InlineRoundTrip ==
    tlast.op = "inline.store_retrieve"
        => /\ tlast.outcome = "ok"
           /\ tlast.value = tlast.content
           /\ tlast.descriptor.content_hash = SHA256(tlast.value)

\* the backend a call went to
Involved ==
    IF tlast.op = "composite.retrieve"
    THEN IF tlast.called = <<>> THEN "" ELSE storages[tlast.called[1]]
    ELSE tlast.kind

C21_ListAtMostLimit ==
    last.op = "redis.list_by_sender" => Len(last.envelopes) <= last.limit

\* the checks of reconstruct_content_from_chunks an input violates
NotAllParts == \E i \in DOMAIN chunks : chunks[i].message_type # MULTIPART_MESSAGE_PART
SeveralMessageIds ==
    \E i, j \in DOMAIN chunks :
        ParseMultiPart(chunks[i].message).message_id
            # ParseMultiPart(chunks[j].message).message_id
SeveralHashes ==
    \E i, j \in DOMAIN chunks :
        ParseMultiPart(chunks[i].message).complete_message_hash
            # ParseMultiPart(chunks[j].message).complete_message_hash

\* C22: when an input violates several checks, the error raised is that of the
\* earliest violated check in the order message type, message id, complete
\* message hash, whatever the position of the offending envelopes
C22_EarliestCheckWins ==
    pc = "done" =>
        /\ NotAllParts => recon.msg = "Expected MULTIPART_MESSAGE_PART"
        /\ (~NotAllParts /\ SeveralMessageIds) => recon.msg = "Message ID mismatch"
        /\ (~NotAllParts /\ ~SeveralMessageIds /\ SeveralHashes)
              => recon.msg = "Complete message hash mismatch"

\* C23: every failure of reconstruct_content_from_chunks is a ValidationError
C23_OnlyValidationError ==
    (pc = "done" /\ recon.kind # "ok") => recon.kind = "ValidationError"

\* C24: when the content does not fit and the chunking backend is used,
\* create_envelope fails with a ValidationError, before producing any envelope,
\* whenever the chunk size it is to cut with is <= 0
C24_FailFastOnChunkSize ==
    (/\ pc = "created"
     /\ cfg.storage = "multipart"
     /\ cfg.max_part_size <= 0
     /\ TryCreateEmbeddedEnvelope(content, DefaultMetadata, cfg.max_envelope_size) = <<>>)
        => (result.kind = "error" /\ result.error = "ValidationError")

\* C28: when create_envelope yields multipart part envelopes,
\* create_envelope_payload returns a payload wrapping the envelope of part
\* number 1 whose postfiat_metadata total_parts is the number of parts
C28_PayloadOfFirstPart ==
    (pc = "payload" /\ result.kind = "multipart") =>
        /\ payload.kind = "payload"
        /\ ParseMultiPart(payload.envelope.message).part_number = 1
        /\ payload.postfiat_metadata["total_parts"] = Len(result.envelopes)

\* C27: after EVMEnvelopeStore.store(e) succeeded, get_envelope_metadata of
\* the id it returned reports the transaction hash, the block number and the
\* gas used of that transaction, none of them empty
C27_ProvenanceReported ==
    (/\ last.op = "evm.get_envelope_metadata"
     /\ \E r \in returned : r.backend = "evm" /\ r.id = last.id)
        => /\ last.outcome = "ok"
           /\ last.metadata["transaction_hash"].n > 0
           /\ last.metadata["block_number"].n > 0
           /\ last.metadata["gas_used"].n > 0

\* C30: XRPLEnvelopeStore.store rejects an envelope for its size only if the
\* envelope as the caller passed it serializes to more than 1024 bytes: every
\* envelope of at most 1024 bytes passes the memo size check
C30_SizeOfPassedEnvelope ==
    (last.op = "xrpl.store" /\ last.passed_size <= MemoCap) => last.memo_size <= MemoCap

\* C26: find_by_content_hash(h) returns exactly the envelopes whose ids are in
\* the index of h and still have a primary record, removes from that index
\* every id whose primary record is missing and nothing else, does not raise,
\* and for an h never used returns the empty list and changes nothing
C26_FindPrunesStale ==
    [][RedisFindByContentHash =>
          LET h == last'.hash
              indexed == IndexMembers(redis.by_hash, h)
              present == indexed \cap DOMAIN redis.kv
          IN  /\ last'.outcome = "ok"
              /\ Len(last'.envelopes) = Cardinality(present)
              /\ {last'.envelopes[i] : i \in DOMAIN last'.envelopes}
                    = {ParseEnvelope(redis.kv[id]) : id \in present}
              /\ redis' = [redis EXCEPT
                              !.by_hash = @ \ {<<h, id>> : id \in indexed \ present}]
              /\ (indexed = {} => (last'.envelopes = <<>> /\ redis' = redis))]_vars

\* a find that returned an envelope and pruned a stale id of the same index
C26_Witness ==
    /\ last.op = "redis.find_by_content_hash"
    /\ last.outcome = "ok"
    /\ last.envelopes # <<>>
    /\ last.effects # {}
    /\ \A id \in last.effects : <<last.hash, id>> \notin redis.by_hash

\* C25: under any interleaving of store, delete and find_by_content_hash calls
\* on one RedisEnvelopeStore, every envelope id that has a primary record is a
\* member of the content-hash index of its content hash
C25_PrimaryIsIndexed ==
    \A id \in DOMAIN redis.kv :
        <<ParseEnvelope(redis.kv[id]).content_hash, id>> \in redis.by_hash

\* C29: of two concurrent delete(id) calls for a stored id, with no store and
\* no third delete beside them, exactly one returns True and the other False
\* (found: the retrieve of the call read the envelope), and afterwards
\* neither the primary record nor any index entry of id remains
C29_OneDeleteWins ==
    \A p, q \in Procs :
        (/\ p # q
         /\ procs[p].op = "delete" /\ procs[p].pc = "done"
         /\ procs[q].op = "delete" /\ procs[q].pc = "done"
         /\ procs[p].id = procs[q].id
         /\ procs[p].found \/ procs[q].found
         /\ \A k \in Procs \ {p, q} : procs[k].op \notin {"store", "delete"})
        => /\ procs[p].value # procs[q].value
           /\ procs[p].id \notin DOMAIN redis.kv
           /\ procs[p].id \notin DOMAIN redis.meta
           /\ \A t \in redis.by_hash \cup redis.by_context : t[2] # procs[p].id
           /\ \A t \in redis.by_sender : t[2] # procs[p].id

\* both deletes read the envelope before either pipeline ran; one returned
\* True, the other False
C29_Witness ==
    \E p, q \in Procs :
        /\ p # q
        /\ procs[p].op = "delete" /\ procs[p].pc = "done" /\ procs[p].found
        /\ procs[q].op = "delete" /\ procs[q].pc = "done" /\ procs[q].found
        /\ procs[p].value /\ ~procs[q].value
        /\ \A k \in Procs \ {p, q} : procs[k].op = "find"
        /\ redis = EmptyRedis

====
